---- MODULE Spec2Model ----
(***************************************************************************)
(* A.FM (Audio File Manager): the library session (directory pick, scan,   *)
(* metadata enrichment queue, filtered list, initial auto-load) and the    *)
(* playback sequencer (playFile / playNext / playPrev) of App.tsx          *)
(* (src/unnamed/part_000).                                                 *)
(*                                                                         *)
(* React state is modelled as committed at the end of the handler step     *)
(* that sets it; the effects whose dependencies the step changed run in    *)
(* the same step, in their order of declaration.                           *)
(***************************************************************************)
EXTENDS Integers, Sequences, FiniteSets, TLC

\* ---------------------------------------------------------------- bounds
NumFiles == 25      \* physical audio files that may exist under the root
MaxPlays == 3       \* cap on playRequestCount (calls of playFile)
MaxRating == 1      \* ratings range over 0..MaxRating (0..5 in the program)
MaxSessions == 1    \* cap on directory picks and imports
FlushCap == 2       \* the count of a pass's flushes saturates here
MaxShortcuts == 3   \* cap on the shortcuts on show at one time
MaxMoves == 2       \* batches moved in one run
\* the longest text and the longest query handed to matchSmartSearch
MaxTextLen == 2
MaxQueryLen == 4
\* the furthest scroll offset and the tallest measured viewport, in half rows
MaxScrollSteps == 40
MaxViewportSteps == 5
\* the most timers of notices pending when a file is located
MaxNotices == 2
MaxUnreliable == 6  \* files 1..MaxUnreliable are those whose probe may fail

\* ------------------------------------------------------ program constants
DefaultMaxDuration == 60
BatchFlushSize == 20
\* ROW_HEIGHT, the rows rendered beyond each edge of the viewport and the
\* viewport height assumed before the first measurement (FileExplorer)
ROW_HEIGHT == 34
Overscan == 10
DefaultViewportHeight == 600
\* the delay of the debounce effect and the delays after which the notices
\* of a failed load, a batch move and a located file are cleared (ms)
DebounceDelay == 200
LoadNoticeDelay == 3000
MoveNoticeDelay == 2500
LocateNoticeDelay == 4000
\* the notice's age is followed up to one step beyond the longest delay
NoticeStep == MoveNoticeDelay \div 5
NoticeCap == LocateNoticeDelay + NoticeStep

\* ------------------------------------------------------------ the library
\* An entry id is a path.  Path p <= NumFiles is file p directly under the
\* root; path p + NumFiles is the same file inside the sub-directory "sub".
Paths == 1..(2 * NumFiles)
Phys(p) == IF p > NumFiles THEN p - NumFiles ELSE p
InSub(p) == p > NumFiles
SubPath(p) == Phys(p) + NumFiles

\* What a successful probe of the file reports (seconds): file 1 is long.
FileDuration(p) == IF Phys(p) = 1 THEN 120 ELSE 30

NoDurations == [p \in Paths |-> 0]
NoRatings == [p \in Paths |-> 0]

Max(a, b) == IF a >= b THEN a ELSE b
SeqToSet(s) == {s[i] : i \in 1..Len(s)}

VARIABLES
    \* the file system and the persistent store
    disk,                \* paths of the audio files that exist
    persisted,           \* the 'durations' record of the store (0 = no key)
    \* React state
    isStarted, isLoading, allFiles, durations, ratings, minRating,
    minDuration, maxDuration, boundsDurMax, activeFileId, isPlaying,
    waveformData, error, isRandom, isLooping,
    \* refs
    rootHandle, hasAutoLoadedFirst, metadataQueue, isEnriching,
    playRequestCount, lastUrl,
    \* refreshFiles in flight
    scanPc, scanCaller, scanFiles,
    \* enrichMetadata in flight
    workers, wpc, wFile, batch, batchSize, lastMaxDuration, wBoundsMax,
    \* playFile calls in flight, the audio element, pending timers
    attempts, audioSrc, audioPaused, liveUrls, skipTimers,
    \* history: who made the latest playFile call, auto-loads of the session
    lastCall, lastItem, autoLoads, sessions,
    \* history: ids probed with success since the duration map was last empty
    probedOk,
    \* history: flushes of the enrichment pass in progress (up to FlushCap)
    flushes,
    \* the selection (a Set: its ids in insertion order)
    selectedIds,
    \* history of handleBatchMove: the batches run, and for the latest one
    \* itemsToMove, the entry whose move threw (0 = none) and movedCount
    moves, moveItems, moveFailed, movedCount,
    \* the debounced search query and the explorer's expanded directories
    debouncedSearch, expandedFolders,
    \* a directory handed to scanDirectory and the items it returned
    scanHandle, scanResult,
    \* the SortSpec of the flat list
    sortKey, sortOrder,
    \* a text and a query handed to matchSmartSearch, and what it returned
    mText, mQuery, mResult,
    \* the explorer's scroll offset and the height of its viewport (pixels)
    scrollTop, viewportHeight,
    \* the search text, the pending timers of the debounce effect (the text
    \* each will apply and the ms left) and, as history, the ms since the
    \* search text last changed (up to DebounceDelay)
    searchText, debounceTimers, textAge,
    \* the pending timers that clear the notice (ms left) and, as history,
    \* the ms for which the notice on show has been up (up to NoticeCap)
    noticeTimers, noticeAge,
    \* the items handed to the explorer's flattening, the rows it returned,
    \* and how the engine's Array.prototype.sort treats a comparator that
    \* never answers 0
    fItems, fResult, sortEngine,
    \* the move shortcuts of the settings panel, and those in the store
    moveShortcuts, savedShortcuts

libVars == <<disk, persisted, isStarted, isLoading, allFiles, durations,
             ratings, minRating, minDuration, maxDuration, boundsDurMax,
             rootHandle, metadataQueue, scanPc, scanCaller, scanFiles>>
workerVars == <<isEnriching, workers, wpc, wFile, batch, batchSize,
                lastMaxDuration, wBoundsMax>>
callVars == <<playRequestCount, attempts, lastCall, lastItem>>
autoVars == <<hasAutoLoadedFirst, autoLoads>>
histVars == <<sessions, probedOk, flushes>>
audioVars == <<activeFileId, isPlaying, waveformData, error, audioSrc,
               audioPaused, lastUrl, liveUrls, skipTimers>>
modeVars == <<isRandom, isLooping>>
moveVars == <<selectedIds, moves, moveItems, moveFailed, movedCount>>
viewVars == <<debouncedSearch, expandedFolders>>
treeVars == <<scanHandle, scanResult>>
sortVars == <<sortKey, sortOrder>>
matchVars == <<mText, mQuery, mResult>>
scrollVars == <<scrollTop, viewportHeight>>
typeVars == <<searchText, debounceTimers, textAge>>
noticeVars == <<noticeTimers, noticeAge>>
flatVars == <<fItems, fResult, sortEngine>>
shortcutVars == <<moveShortcuts, savedShortcuts>>
sideVars == <<flatVars, shortcutVars>>
uiQuiet == <<sortVars, matchVars, scrollVars, typeVars, sideVars>>
uiVars == <<uiQuiet, noticeVars>>
vars == <<libVars, workerVars, callVars, autoVars, audioVars, modeVars,
          histVars, moveVars, viewVars, treeVars, uiVars>>

\* the explorer's effect on activeId: the ancestors of the active entry
\* are added to the expanded directories
ExpandParents(folders, id) ==
    IF id # 0 /\ InSub(id) THEN folders \cup {"sub"} ELSE folders

\* ------------------------------------------------- sorting and filtering
Name(p) == Phys(p)

\* the size, the type and the date of last change of a file: two sizes and
\* two types, and a date of its own for every path (the later the path, the
\* older the file)
FileSize(p) == (Phys(p) % 2) + 1
FileType(p) == Phys(p) % 2
LastModified(p) == (2 * NumFiles) + 1 - p

SortKeys == {"name", "size", "type", "date", "duration", "rating"}

\* valA / valB of the comparator; lower-cased names and types keep the
\* order of the letters
SortValue(key, p, durs, rates) ==
    CASE key = "date" -> LastModified(p)
      [] key = "duration" -> durs[p]
      [] key = "rating" -> rates[p]
      [] key = "size" -> FileSize(p)
      [] key = "type" -> FileType(p)
      [] OTHER -> Name(p)

\* the comparator of sortedFiles on the values of two entries
Compare(order, valA, valB) ==
    IF valA < valB THEN (IF order = "asc" THEN 0 - 1 ELSE 1)
    ELSE IF valA > valB THEN (IF order = "asc" THEN 1 ELSE 0 - 1)
    ELSE 0

\* faulty variant: an entry goes in front of the entries it ties with
Before_Ties(c) == c <= 0

\* p goes in front of an entry e when the comparator puts it first
Before(c) == c < 0

\* Array.prototype.sort is a stable sort: an entry moves in front of the
\* entries the comparator puts it before, and of no other
RECURSIVE InsertBy(_, _, _, _, _, _)
InsertBy(key, order, durs, rates, s, p) ==
    IF s = <<>> THEN <<p>>
    ELSE IF Before(Compare(order, SortValue(key, p, durs, rates),
                           SortValue(key, Head(s), durs, rates)))
         THEN <<p>> \o s
         ELSE <<Head(s)>> \o InsertBy(key, order, durs, rates, Tail(s), p)

RECURSIVE SortWith(_, _, _, _, _)
SortWith(key, order, files, durs, rates) ==
    IF files = <<>> THEN <<>>
    ELSE InsertBy(key, order, durs, rates,
                  SortWith(key, order, SubSeq(files, 1, Len(files) - 1),
                           durs, rates),
                  files[Len(files)])

\* sortedFiles
SortedFiles(files) == SortWith(sortKey, sortOrder, files, durations, ratings)

\* The letters, in the two cases
Lower == <<"a", "b", "c", "d", "e", "f", "g", "h", "i", "j", "k", "l", "m",
          "n", "o", "p", "q", "r", "s", "t", "u", "v", "w", "x", "y", "z">>
Upper == <<"A", "B", "C", "D", "E", "F", "G", "H", "I", "J", "K", "L", "M",
          "N", "O", "P", "Q", "R", "S", "T", "U", "V", "W", "X", "Y", "Z">>

\* A name is a string of characters: file p is named by the p-th letter,
\* the directory "sub" by the letter s.
NameText(p) == <<Lower[Phys(p)]>>
SubName == <<"s">>

\* String.prototype.toLowerCase, one character at a time
ToLower(c) ==
    IF \E i \in 1..Len(Upper) : Upper[i] = c
    THEN Lower[CHOOSE i \in 1..Len(Upper) : Upper[i] = c]
    ELSE c

LowerCase(s) == [i \in 1..Len(s) |-> ToLower(s[i])]

\* text.includes(word)
Includes(text, word) ==
    \E i \in 1..(Len(text) + 1) :
       /\ i + Len(word) - 1 <= Len(text)
       /\ SubSeq(text, i, i + Len(word) - 1) = word

\* text.startsWith(word)
StartsWith(text, word) ==
    Len(word) <= Len(text) /\ SubSeq(text, 1, Len(word)) = word

\* query.trim()
RECURSIVE Trim(_)
Trim(s) ==
    IF s = <<>> THEN <<>>
    ELSE IF Head(s) = " " THEN Trim(Tail(s))
    ELSE IF s[Len(s)] = " " THEN Trim(SubSeq(s, 1, Len(s) - 1))
    ELSE s

\* s.split(/\s+/) of a trimmed, non-empty string: cur is the term being read
RECURSIVE SplitFrom(_, _)
SplitFrom(s, cur) ==
    IF s = <<>> THEN <<cur>>
    ELSE IF Head(s) = " "
         THEN IF cur = <<>> THEN SplitFrom(Tail(s), <<>>)
              ELSE <<cur>> \o SplitFrom(Tail(s), <<>>)
         ELSE SplitFrom(Tail(s), Append(cur, Head(s)))

Split_Whole(s) == <<s>>
Split(s) == SplitFrom(s, <<>>)

\* term.lastIndexOf('/'), counted from 0; -1 when there is none
LastSlash(term) ==
    IF \E i \in 1..Len(term) : term[i] = "/"
    THEN (CHOOSE i \in 1..Len(term) :
             term[i] = "/" /\ \A j \in (i + 1)..Len(term) : term[j] # "/") - 1
    ELSE -1

\* new RegExp(pattern, flags) does not throw: the flags are distinct letters
\* of "dgimsuvy", u and v not together (the patterns are made of characters
\* that stand for themselves, so they are well formed)
FlagChars == {"d", "g", "i", "m", "s", "u", "v", "y"}
FlagsOk(flags) ==
    /\ \A i \in 1..Len(flags) : flags[i] \in FlagChars
    /\ \A i, j \in 1..Len(flags) : flags[i] = flags[j] => i = j
    /\ ~(Includes(flags, <<"u">>) /\ Includes(flags, <<"v">>))

\* new RegExp(pattern, flags).test(text) of a literal pattern: i folds the
\* case, y anchors the match at index 0
RegExpTest(text, pattern, flags) ==
    LET fold == Includes(flags, <<"i">>)
        t == IF fold THEN LowerCase(text) ELSE text
        w == IF fold THEN LowerCase(pattern) ELSE pattern
    IN  IF Includes(flags, <<"y">>) THEN StartsWith(t, w) ELSE Includes(t, w)

Excludes_CaseSensitive(text, exclude) == ~Includes(text, exclude)
Excludes(text, exclude) == ~Includes(LowerCase(text), exclude)

\* the callback of terms.every
TermMatches(text, term) ==
    IF StartsWith(term, <<"-">>)
    THEN LET exclude == LowerCase(Tail(term))
         IN  exclude = <<>> \/ Excludes(text, exclude)
    ELSE IF StartsWith(term, <<"/">>) /\ LastSlash(term) > 0
    THEN LET pattern == SubSeq(term, 2, LastSlash(term))
             flags == SubSeq(term, LastSlash(term) + 2, Len(term))
         IN  IF FlagsOk(flags)
             THEN RegExpTest(text, pattern,
                             IF flags = <<>> THEN <<"i">> ELSE flags)
             ELSE Includes(LowerCase(text), LowerCase(term))
    ELSE Includes(LowerCase(text), LowerCase(term))

\* matchSmartSearch(text, query): texts and queries are sequences of
\* characters
MatchSmartSearch(text, query) ==
    IF Trim(query) = <<>> THEN TRUE
    ELSE LET terms == Split(Trim(query))
         IN  \A k \in 1..Len(terms) : TermMatches(text, terms[k])

\* filteredFiles under the search q: the search, duration and rating
\* predicates; the size and date predicates hold for every file of this
\* library, whose size and date ranges stay at the bounds of the scan.
FilteredSorted(key, order, q, files, durs, rates, minR, minD, maxD) ==
    SelectSeq(SortWith(key, order, files, durs, rates),
              LAMBDA p : /\ MatchSmartSearch(NameText(p), q)
                         /\ durs[p] >= minD /\ durs[p] <= maxD
                         /\ rates[p] >= minR)

FilteredWith(q, files, durs, rates, minR, minD, maxD) ==
    FilteredSorted(sortKey, sortOrder, q, files, durs, rates, minR, minD,
                   maxD)

Filtered(files, durs, rates, minR, minD, maxD) ==
    FilteredWith(debouncedSearch, files, durs, rates, minR, minD, maxD)

FilteredFiles ==
    Filtered(allFiles, durations, ratings, minRating, minDuration, maxDuration)

\* scanDirectory: the root's files, then those of "sub", in name order
RECURSIVE SetToSeq(_)
SetToSeq(S) ==
    IF S = {} THEN <<>>
    ELSE LET m == CHOOSE x \in S : \A y \in S : x <= y
         IN  <<m>> \o SetToSeq(S \ {m})

ScanDirectory(d) == SetToSeq(d)

\* ------------------------------------------------- the explorer's tree
\* A FileSystemItem of the explorer: a file, or a directory and its
\* children.  A directory is known by its id; a row of the flattened list
\* is an item without its children.
FileNode(p) ==
    [kind |-> "file", file |-> p, dir |-> "", children |-> <<>>]
DirNode(d, children) ==
    [kind |-> "directory", file |-> 0, dir |-> d, children |-> children]

FileRow(p) == [kind |-> "file", file |-> p, dir |-> ""]
DirRow(d) == [kind |-> "directory", file |-> 0, dir |-> d]

NotFlattened == [done |-> FALSE, rows |-> <<>>]

\* the directory "sub" is named "s", the directory "sub/deep" inside it "d"
DeepName == <<"d">>
DirName(d) == IF d = "sub" THEN SubName ELSE DeepName

\* the place of a letter in the alphabet
LetterRank(c) == CHOOSE i \in 1..Len(Lower) : Lower[i] = c

\* currentFolderItems at the root: the files under the root, then the
\* directory "sub" whose children are the files inside it
RootFiles == SelectSeq(allFiles, LAMBDA p : ~InSub(p))
SubFiles == SelectSeq(allFiles, LAMBDA p : InSub(p))

FileNodes(files) == [i \in 1..Len(files) |-> FileNode(files[i])]

CurrentFolderItems ==
    FileNodes(RootFiles) \o
    (IF SubFiles # <<>> THEN <<DirNode("sub", FileNodes(SubFiles))>>
                        ELSE <<>>)

\* "x || Infinity" of a range maximum: 0 lets every value through
UpTo(v, max) == max = 0 \/ v <= max

\* processNode on a file: its verdict under filterCriteria
NodeMatches(p) ==
    /\ MatchSmartSearch(NameText(p), debouncedSearch)
    /\ durations[p] >= minDuration /\ UpTo(durations[p], maxDuration)
    /\ ratings[p] >= minRating

\* searchActive
SearchActive == debouncedSearch # <<>> \/ minRating > 0

\* valA / valB of the explorer's comparator for a row: a directory has no
\* size, type, date, duration or rating ("|| 0"; the type "0" sorts in
\* front of every type of a file)
RowValue(row) ==
    IF row.kind = "file"
    THEN SortValue(sortKey, row.file, durations, ratings)
    ELSE CASE sortKey = "name" -> LetterRank(DirName(row.dir)[1])
           [] sortKey = "type" -> 0 - 1
           [] OTHER -> 0

\* the comparator of matches.sort: it never answers 0
ExplorerCompare(order, valA, valB) ==
    IF valA < valB THEN (IF order = "asc" THEN 0 - 1 ELSE 1)
                   ELSE (IF order = "asc" THEN 1 ELSE 0 - 1)

\* Array.prototype.sort on rows that may tie under a comparator that never
\* answers 0: the order of such rows is left to the engine.  V8 puts a row
\* in front of the first row e with comparefn(row, e) < 0; SpiderMonkey
\* moves a row to the left past every row e with comparefn(e, row) > 0.
Engines == {"v8", "spidermonkey"}

RECURSIVE InsertRow(_, _)
InsertRow(s, row) ==
    IF s = <<>> THEN <<row>>
    ELSE IF sortEngine = "v8"
    THEN IF ExplorerCompare(sortOrder, RowValue(row), RowValue(Head(s))) < 0
         THEN <<row>> \o s
         ELSE <<Head(s)>> \o InsertRow(Tail(s), row)
    ELSE IF ExplorerCompare(sortOrder, RowValue(s[Len(s)]),
                            RowValue(row)) > 0
         THEN Append(InsertRow(SubSeq(s, 1, Len(s) - 1), row), s[Len(s)])
         ELSE Append(s, row)

RECURSIVE SortRows(_)
SortRows(s) ==
    IF s = <<>> THEN <<>>
    ELSE InsertRow(SortRows(SubSeq(s, 1, Len(s) - 1)), s[Len(s)])

\* faulty variant: a directory's row is pushed whether or not anything
\* under it was pushed
Emit_Always(matches, d) == TRUE

\* "hasMatches || (nodeMatchesSearch && node.id !== 'root')"
Emit(matches, d) ==
    matches # <<>> \/ (MatchSmartSearch(DirName(d), debouncedSearch)
                          /\ d # "root")

\* processNode(node): the rows it leaves in result.  The children of a
\* directory are visited when it is expanded or a search is active; with a
\* row among theirs (or a matching name) the directory's row is pushed, and
\* behind it, for an expanded directory, all the rows pushed below it,
\* sorted as one array
RECURSIVE ProcessNode(_)
RECURSIVE ProcessNodes(_)
ProcessNode(node) ==
    IF node.kind = "file"
    THEN IF NodeMatches(node.file) THEN <<FileRow(node.file)>> ELSE <<>>
    ELSE LET isExpanded == node.dir \in expandedFolders
             matches == IF isExpanded \/ SearchActive
                        THEN ProcessNodes(node.children) ELSE <<>>
         IN  IF Emit(matches, node.dir)
             THEN <<DirRow(node.dir)>> \o
                  (IF isExpanded THEN SortRows(matches) ELSE <<>>)
             ELSE <<>>

\* "items.forEach(item => processNode(item, 0))"
ProcessNodes(nodes) ==
    IF nodes = <<>> THEN <<>>
    ELSE ProcessNode(Head(nodes)) \o ProcessNodes(Tail(nodes))

\* flattenedList: the rows of the explorer
FlattenedList == ProcessNodes(CurrentFolderItems)

\* The rendered window: startIndex, endIndex and
\* flattenedList.slice(startIndex, endIndex).  The offsets are whole
\* pixels, so Math.floor of a quotient is the integer quotient.
StartRow(top) == top \div ROW_HEIGHT
EndRow_Ceil(top, height) == (top + height + ROW_HEIGHT - 1) \div ROW_HEIGHT
EndRow(top, height) == (top + height) \div ROW_HEIGHT

StartIndex == Max(0, StartRow(scrollTop) - Overscan)
EndIndex ==
    LET end == EndRow(scrollTop, viewportHeight) + Overscan
    IN  IF end <= Len(FlattenedList) THEN end ELSE Len(FlattenedList)

\* list.slice(from, to) for 0 <= from and 0 <= to <= list.length
Slice(list, from, to) == SubSeq(list, from + 1, to)

VisibleItems == Slice(FlattenedList, StartIndex, EndIndex)

\* ----------------------------------------------- scanDirectory, entry by
\* entry.  A directory handle is its entries in the order values() yields
\* them, and how the iteration ends: with throws it throws after yielding
\* the first "yields" entries.  A file entry says whether its name has an
\* audio extension and whether getFile() resolves.
FileEntry(name, audio, ok) ==
    [kind |-> "file", name |-> name, audio |-> audio, ok |-> ok,
     entries |-> <<>>, throws |-> FALSE, yields |-> 0]
DirEntry(name, entries, throws, yields) ==
    [kind |-> "directory", name |-> name, audio |-> FALSE, ok |-> TRUE,
     entries |-> entries, throws |-> throws, yields |-> yields]

NoHandle == DirEntry("", <<>>, FALSE, 0)
NotScanned == [done |-> FALSE, items |-> <<>>]

\* the FileSystemItem of an entry found under path (id: the full path)
Item(path, entry, children) ==
    [id |-> Append(path, entry.name), name |-> entry.name,
     kind |-> entry.kind, children |-> children]

\* faulty variant: what was read before the error is dropped
Caught_Nothing(items) == <<>>

\* the catch block: the error is logged and the items read so far returned
Caught(items) == items

\* the loop of scanDirectory(handle, path) from its i-th turn on
RECURSIVE ScanFrom(_, _, _, _)
ScanFrom(handle, path, i, items) ==
    LET n == IF handle.throws THEN handle.yields ELSE Len(handle.entries)
        entry == handle.entries[i]
    IN  IF i > n
        THEN IF handle.throws THEN Caught(items) ELSE items
        ELSE IF entry.kind = "file"
             THEN IF ~entry.audio
                  THEN ScanFrom(handle, path, i + 1, items)
                  ELSE IF ~entry.ok
                       THEN Caught(items)
                       ELSE ScanFrom(handle, path, i + 1,
                                     Append(items, Item(path, entry, <<>>)))
             ELSE LET children == ScanFrom(entry, Append(path, entry.name),
                                           1, <<>>)
                  IN  ScanFrom(handle, path, i + 1,
                               Append(items, Item(path, entry, children)))

ScanTree(handle) == ScanFrom(handle, <<>>, 1, <<>>)

\* refreshFiles: the explorer's items, the scanned items under a root entry
\* of id "root"
ExplorerItems(items) ==
    <<[id |-> <<"root">>, name |-> "", kind |-> "directory",
       children |-> items]>>

\* scanDirectory(handle) has resolved
Scan ==
    /\ ~scanResult.done
    /\ scanResult' = [done |-> TRUE, items |-> ScanTree(scanHandle)]
    /\ UNCHANGED <<libVars, workerVars, callVars, autoVars, audioVars,
                   modeVars, histVars, moveVars, uiVars, viewVars, scanHandle>>

\* ------------------------------------------------------------ attempts
\* The src of the audio element: "" or an object URL, which is known by the
\* attempt that created it and serves the bytes of that attempt's entry.
NoSource == [url |-> 0, item |-> 0]
Source(r) == [url |-> r, item |-> attempts[r].item]

Idle == [pc |-> "none", item |-> 0, shouldPlay |-> FALSE]
Finished(how) == [pc |-> how, item |-> 0, shouldPlay |-> FALSE]

\* playFile(item, shouldPlay) up to its first await: a new request id.
\* An older attempt that is suspended in arrayBuffer() or decodeAudioData()
\* is over from here on: its continuation and its catch block both begin
\* with the generation check, which it now fails.
PlayFileCall(item, shouldPlay, caller) ==
    /\ playRequestCount < MaxPlays
    /\ playRequestCount' = playRequestCount + 1
    /\ attempts' = [r \in 1..MaxPlays |->
                       IF r = playRequestCount + 1
                       THEN [pc |-> "open", item |-> item,
                             shouldPlay |-> shouldPlay]
                       ELSE IF attempts[r].pc = "decode"
                            THEN Finished("done")
                            ELSE attempts[r]]
    /\ lastCall' = caller
    /\ lastItem' = item

\* "if (item.kind !== 'file') return"
ReturnsAtOnce_Never(kind) == FALSE
ReturnsAtOnce(kind) == kind # "file"

\* playFile(item, shouldPlay) up to its first await
PlayFile(kind, item, shouldPlay, caller) ==
    IF ReturnsAtOnce(kind) THEN UNCHANGED callVars
    ELSE PlayFileCall(item, shouldPlay, caller)

\* ------------------------------------------------------------- effects
\* enrichMetadata up to its first await (the effect's guard has passed)
\* faulty variant: the item is taken from the end of the list
Shift_Pop(queue) ==
    <<queue[Len(queue)], SubSeq(queue, 1, Len(queue) - 1)>>

\* "metadataQueueRef.current.shift()": the item taken and the list left
Shift(queue) == <<Head(queue), Tail(queue)>>

StartWorker(queue, bmax) ==
    /\ isEnriching' = TRUE
    /\ workers' = workers + 1
    /\ batch' = NoDurations
    /\ batchSize' = 0
    /\ lastMaxDuration' = bmax
    /\ wBoundsMax' = bmax
    /\ wFile' = Shift(queue)[1]
    /\ metadataQueue' = Shift(queue)[2]
    /\ wpc' = "getFile"

\* faulty variant: the guard without the isEnriching lock
EnrichGuard_NoLock(started, queue) ==
    started /\ queue # <<>>

EnrichGuard(started, queue) ==
    started /\ queue # <<>> /\ ~isEnriching

\* The enrichment effect.  depsChanged: isStarted, allFiles.length or
\* bounds.duration.max differs from the previous render.
EnrichEffect(depsChanged, started, queue, bmax) ==
    IF depsChanged /\ EnrichGuard(started, queue)
    THEN StartWorker(queue, bmax)
    ELSE /\ metadataQueue' = queue
         /\ UNCHANGED workerVars

\* faulty variant: the auto-load effect without the hasAutoLoadedFirstRef
\* test
AutoLoadEffect_NoLatch(flag, count, started, loading, list) ==
    IF started /\ ~loading /\ list # <<>>
    THEN /\ hasAutoLoadedFirst' = TRUE
         /\ autoLoads' = count + 1
         /\ PlayFileCall(list[1], FALSE, "auto")
    ELSE /\ hasAutoLoadedFirst' = flag
         /\ autoLoads' = count
         /\ UNCHANGED callVars

\* The auto-load effect, with the values of the render it runs in.
AutoLoadEffect(flag, count, started, loading, list) ==
    IF started /\ ~loading /\ list # <<>> /\ ~flag
    THEN /\ hasAutoLoadedFirst' = TRUE
         /\ autoLoads' = count + 1
         /\ PlayFileCall(list[1], FALSE, "auto")
    ELSE /\ hasAutoLoadedFirst' = flag
         /\ autoLoads' = count
         /\ UNCHANGED callVars

\* setError(text) followed by setTimeout(() => setError(null), delay)
RaiseNotice(delay) ==
    /\ noticeTimers' = Append(noticeTimers, delay)
    /\ noticeAge' = 0

Notice(raised, delay) ==
    IF raised THEN RaiseNotice(delay) ELSE UNCHANGED noticeVars

\* ---------------------------------------------------------------- Init
\* what the lists on show are computed from, before a directory is picked
InitShown ==
    /\ isStarted = FALSE /\ isLoading = FALSE /\ rootHandle = FALSE
    /\ allFiles = <<>>
    /\ ratings = NoRatings
    /\ minRating = 0
    /\ debouncedSearch = <<>> /\ expandedFolders = {"root"}
    /\ sortKey = "name" /\ sortOrder = "asc"
    /\ searchText = <<>> /\ textAge = 0
    /\ debounceTimers = <<[text |-> <<>>, left |-> DebounceDelay]>>

\* the rest of the application's state after construction
InitRest ==
    /\ minDuration = 0 /\ maxDuration = DefaultMaxDuration
    /\ boundsDurMax = DefaultMaxDuration
    /\ activeFileId = 0 /\ isPlaying = FALSE /\ waveformData = 0
    /\ error = "none"
    /\ isRandom = FALSE /\ isLooping = FALSE
    /\ hasAutoLoadedFirst = FALSE
    /\ metadataQueue = <<>> /\ isEnriching = FALSE
    /\ playRequestCount = 0 /\ lastUrl = 0
    /\ scanPc = "idle" /\ scanCaller = "none" /\ scanFiles = <<>>
    /\ workers = 0 /\ wpc = "idle" /\ wFile = 0
    /\ batch = NoDurations /\ batchSize = 0
    /\ lastMaxDuration = 0 /\ wBoundsMax = 0
    /\ attempts = [r \in 1..MaxPlays |-> Idle]
    /\ audioSrc = NoSource /\ audioPaused = TRUE /\ liveUrls = {}
    /\ skipTimers = 0
    /\ lastCall = "none" /\ lastItem = 0 /\ autoLoads = 0 /\ sessions = 0
    /\ probedOk = {} /\ flushes = 0
    /\ selectedIds = <<>>
    /\ scanResult = NotScanned
    /\ moves = 0 /\ moveItems = <<>> /\ moveFailed = 0 /\ movedCount = 0
    /\ scrollTop = 0 /\ viewportHeight = DefaultViewportHeight
    /\ noticeTimers = <<>> /\ noticeAge = 0
    /\ savedShortcuts = <<>>
    /\ moveShortcuts = savedShortcuts       \* loadPersisted

InitApp == InitRest /\ InitShown

\* no call of matchSmartSearch is being examined
InitNoMatch == mText = <<>> /\ mQuery = <<>> /\ mResult = <<>>

\* no flattening is being examined.  The engine matters only to a sort in
\* which two rows tie; the sessions below start with V8's.
InitNoFlatten ==
    fItems = <<>> /\ fResult = NotFlattened /\ sortEngine = "v8"

InitBase == InitApp /\ InitNoMatch /\ InitNoFlatten

\* A first visit: two files (one long) under the root, nothing cached.
Init ==
    /\ InitBase
    /\ scanHandle = NoHandle
    /\ disk = {1, 2}
    /\ persisted = NoDurations
    /\ durations = persisted          \* loadPersisted

\* -------------------------------------------------- session and scanning
\* handleDirectoryPicker up to the scan inside "await refreshFiles()"
PickDirectory ==
    /\ ~isStarted /\ ~isLoading /\ scanPc = "idle"
    /\ sessions < MaxSessions
    /\ sessions' = sessions + 1
    /\ UNCHANGED <<probedOk, flushes>>
    /\ rootHandle' = TRUE
    /\ hasAutoLoadedFirst' = FALSE
    /\ autoLoads' = 0
    /\ isLoading' = TRUE
    /\ scanPc' = "scanning"
    /\ scanCaller' = "picker"
    /\ UNCHANGED <<disk, persisted, isStarted, allFiles, durations, ratings,
                   minRating, minDuration, maxDuration, boundsDurMax,
                   metadataQueue, scanFiles, workerVars, callVars,
                   audioVars, modeVars, moveVars, uiVars, treeVars, viewVars>>

\* refreshFiles from "setAllFiles(files)" on, then the caller's continuation
\* (handleDirectoryPicker: setIsStarted(true); handleBatchMove: the notice),
\* then the effects of the resulting render.
ScanFinish(files, queue) ==
    /\ allFiles' = files
    /\ scanFiles' = <<>>
    /\ IF scanCaller = "picker"
       THEN /\ isStarted' = TRUE
            \* the explorer is mounted
            /\ expandedFolders' = ExpandParents({"root"}, activeFileId)
            /\ EnrichEffect(TRUE, TRUE, queue, boundsDurMax')
            \* the refresh effect: isStarted became true, rootHandle is set
            /\ isLoading' = TRUE
            /\ scanPc' = "scanning"
            /\ scanCaller' = "effect"
            /\ error' = error
       ELSE /\ isStarted' = isStarted
            /\ UNCHANGED expandedFolders
            /\ EnrichEffect(Len(files) # Len(allFiles), isStarted, queue,
                            boundsDurMax')
            /\ isLoading' = FALSE
            /\ scanPc' = "idle"
            /\ scanCaller' = "none"
            /\ error' = IF scanCaller = "move" THEN "moved" ELSE error
    /\ AutoLoadEffect(hasAutoLoadedFirst, autoLoads, isStarted', FALSE,
                      Filtered(files, durations, ratings, minRating,
                               minDuration', maxDuration'))
    /\ UNCHANGED <<disk, persisted, durations, ratings, minRating,
                   rootHandle, activeFileId, isPlaying, waveformData,
                   audioSrc, audioPaused, lastUrl, liveUrls, skipTimers,
                   modeVars, moveVars, uiQuiet, treeVars, debouncedSearch,
                   histVars>>
    /\ Notice(scanCaller = "move", MoveNoticeDelay)

\* refreshFiles: scanDirectory has resolved; bounds and ranges are reset and
\* the duration cache is requested (or, with no file, the scan is over).
ScanDone ==
    /\ scanPc = "scanning"
    /\ LET files == ScanDirectory(disk) IN
       IF files = <<>>
       THEN /\ UNCHANGED <<boundsDurMax, minDuration, maxDuration>>
            /\ ScanFinish(files, metadataQueue)
       ELSE /\ boundsDurMax' = DefaultMaxDuration
            /\ minDuration' = 0
            /\ maxDuration' = DefaultMaxDuration
            /\ scanFiles' = files
            /\ scanPc' = "readCache"
            /\ EnrichEffect(boundsDurMax # DefaultMaxDuration, isStarted,
                            metadataQueue, DefaultMaxDuration)
            /\ UNCHANGED <<disk, persisted, isStarted, isLoading, allFiles,
                           durations, ratings, minRating, rootHandle,
                           scanCaller, callVars, autoVars, audioVars,
                           modeVars, moveVars, uiVars, treeVars, viewVars,
                           histVars>>

\* refreshFiles: getMetadata('durations') has resolved; the queue is seeded
CacheRead ==
    /\ scanPc = "readCache"
    /\ UNCHANGED <<boundsDurMax, minDuration, maxDuration>>
    /\ ScanFinish(scanFiles,
                  SelectSeq(scanFiles, LAMBDA p : persisted[p] = 0))

\* refreshFiles: getMetadata('durations') has rejected.  The try block has
\* no catch: "finally" clears isLoading and the rejection goes to the
\* caller (handleDirectoryPicker opens the file input, handleBatchMove posts
\* its failure notice, the refresh effect drops it); the file list is not
\* set and the queue is not seeded.
CacheReadFails ==
    /\ scanPc = "readCache"
    /\ isLoading' = FALSE
    /\ scanPc' = "idle"
    /\ scanCaller' = "none"
    /\ scanFiles' = <<>>
    /\ error' = IF scanCaller = "move" THEN "move failed" ELSE error
    /\ EnrichEffect(FALSE, isStarted, metadataQueue, boundsDurMax)
    /\ AutoLoadEffect(hasAutoLoadedFirst, autoLoads, isStarted, FALSE,
                      FilteredFiles)
    /\ UNCHANGED <<disk, persisted, isStarted, allFiles, durations, ratings,
                   minRating, minDuration, maxDuration, boundsDurMax,
                   rootHandle, activeFileId, isPlaying, waveformData,
                   audioSrc, audioPaused, lastUrl, liveUrls, skipTimers,
                   modeVars, moveVars, uiQuiet, treeVars, viewVars, histVars>>
    /\ Notice(scanCaller = "move", MoveNoticeDelay)

\* "Eject Directory": setIsStarted(false); the audio element unmounts
Eject ==
    /\ isStarted
    /\ isStarted' = FALSE
    /\ audioSrc' = NoSource
    /\ audioPaused' = TRUE
    /\ expandedFolders' = {"root"}       \* the explorer is unmounted
    /\ scrollTop' = 0 /\ viewportHeight' = DefaultViewportHeight
    /\ UNCHANGED <<disk, persisted, isLoading, allFiles, durations, ratings,
                   minRating, minDuration, maxDuration, boundsDurMax,
                   rootHandle, metadataQueue, scanPc, scanCaller, scanFiles,
                   workerVars, callVars, autoVars, activeFileId, isPlaying,
                   waveformData, error, lastUrl, liveUrls, skipTimers,
                   modeVars, moveVars, sortVars, matchVars, sideVars, typeVars,
                   noticeVars, treeVars, debouncedSearch, histVars>>

\* handleLegacyInput: the whole handler (it has no await)
LegacyImport ==
    /\ ~isStarted /\ ~isLoading /\ scanPc = "idle"
    /\ sessions < MaxSessions
    /\ sessions' = sessions + 1
    /\ probedOk' = {p \in Paths : batch[p] # 0}     \* setDurations({})
    /\ UNCHANGED flushes
    /\ disk # {}
    /\ LET files == ScanDirectory(disk) IN
       /\ allFiles' = files
       /\ durations' = NoDurations
       /\ isStarted' = TRUE
       \* the explorer is mounted
       /\ expandedFolders' = ExpandParents({"root"}, activeFileId)
       /\ EnrichEffect(TRUE, TRUE, files, boundsDurMax)
       /\ IF rootHandle
          THEN isLoading' = TRUE /\ scanPc' = "scanning"
               /\ scanCaller' = "effect"
          ELSE UNCHANGED <<isLoading, scanPc, scanCaller>>
       /\ AutoLoadEffect(FALSE, 0, TRUE, FALSE,
                         Filtered(files, NoDurations, ratings, minRating,
                                  minDuration, maxDuration))
    /\ UNCHANGED <<disk, persisted, ratings, minRating, minDuration,
                   maxDuration, boundsDurMax, rootHandle, scanFiles,
                   audioVars, modeVars, moveVars, uiVars, treeVars,
                   debouncedSearch>>

\* handleBatchMove of the one selected file p, a file directly under the
\* root, into "sub", up to the scan inside "await refreshFiles()": the copy
\* is written under the target and the source is removed from its parent.
\* The entries of an import have no file handle (handle: {}): for them
\* "sourceHandle.getFile()" throws and the handler ends in its catch block.
BatchMove(p) ==
    /\ isStarted /\ ~isLoading /\ scanPc = "idle"
    /\ p \in SeqToSet(allFiles) /\ p \in disk /\ ~InSub(p)
    /\ IF rootHandle
       THEN /\ disk' = (disk \cup {SubPath(p)}) \ {p}
            /\ isLoading' = TRUE
            /\ scanPc' = "scanning"
            /\ scanCaller' = "move"
            /\ UNCHANGED error
       ELSE /\ Len(noticeTimers) < MaxNotices
            /\ error' = "move failed"
            /\ UNCHANGED <<disk, isLoading, scanPc, scanCaller>>
    /\ UNCHANGED <<persisted, isStarted, allFiles, durations, ratings,
                   minRating, minDuration, maxDuration, boundsDurMax,
                   rootHandle, metadataQueue, scanFiles, workerVars,
                   callVars, autoVars, activeFileId, isPlaying, waveformData,
                   audioSrc, audioPaused, lastUrl, liveUrls, skipTimers,
                   modeVars, moveVars, uiQuiet, treeVars, viewVars, histVars>>
    /\ Notice(~rootHandle, MoveNoticeDelay)

\* toggleSelection: the checkbox of one file of the explorer
ToggleSelection(p) ==
    /\ isStarted /\ ~isLoading /\ scanPc = "idle"
    /\ p \in SeqToSet(allFiles)
    /\ selectedIds' = IF p \in SeqToSet(selectedIds)
                      THEN SelectSeq(selectedIds, LAMBDA q : q # p)
                      ELSE Append(selectedIds, p)
    /\ UNCHANGED <<libVars, workerVars, callVars, autoVars, audioVars,
                   modeVars, histVars, viewVars, treeVars, uiVars, moves,
                   moveItems, moveFailed, movedCount>>

\* "Select All Match" / "Deselect"
SelectAll ==
    /\ isStarted /\ ~isLoading /\ scanPc = "idle"
    /\ selectedIds' = IF Len(selectedIds) = Len(FilteredFiles)
                      THEN <<>> ELSE FilteredFiles
    /\ UNCHANGED <<libVars, workerVars, callVars, autoVars, audioVars,
                   modeVars, histVars, viewVars, treeVars, uiVars, moves,
                   moveItems, moveFailed, movedCount>>

\* handleBatchMove: itemsToMove, the selected entries found in allFiles in
\* the order of the selection, or else the active entry
ItemsToMove ==
    IF Len(selectedIds) > 0
    THEN SelectSeq(selectedIds, LAMBDA p : p \in SeqToSet(allFiles))
    ELSE IF activeFileId # 0 /\ activeFileId \in SeqToSet(allFiles)
         THEN <<activeFileId>> ELSE <<>>

\* one turn of the loop of handleBatchMove on the files d: the copy is
\* written under the target "sub" and the source is removed from its parent
MoveEntry(d, p) == (d \cup {SubPath(p)}) \ {p}

\* the files left by the first n turns of the loop
RECURSIVE MoveEntries(_, _, _)
MoveEntries(d, items, n) ==
    IF n = 0 THEN d
    ELSE MoveEntry(MoveEntries(d, items, n - 1), items[n])

\* the turns of the loop that ran to "movedCount++" when the turn of entry
\* failAt threw (0: no turn threw): the one try block encloses the loop
MovedBeforeThrow(items, failAt) ==
    IF failAt = 0 THEN Len(items) ELSE failAt - 1

\* handleBatchMove of the selection into "sub", up to the scan inside
\* "await refreshFiles()" or, when the move of entry failAt throws (its
\* file is gone, or its read or the write of its copy fails), to the end
\* of the handler through its catch block.
HandleBatchMove(failAt) ==
    /\ isStarted /\ ~isLoading /\ scanPc = "idle" /\ rootHandle
    /\ moves < MaxMoves
    /\ LET items == ItemsToMove
           n == MovedBeforeThrow(items, failAt)
       IN /\ Len(items) > 0
          /\ failAt \in 0..Len(items)
          /\ \A i \in 1..n : items[i] \in MoveEntries(disk, items, i - 1)
          /\ moves' = moves + 1
          /\ moveItems' = items
          /\ moveFailed' = failAt
          /\ movedCount' = n
          /\ disk' = MoveEntries(disk, items, n)
          /\ IF failAt = 0
             THEN /\ selectedIds' = <<>>
                  /\ isLoading' = TRUE
                  /\ scanPc' = "scanning"
                  /\ scanCaller' = "move"
                  /\ UNCHANGED error
             ELSE /\ error' = "move failed"
                  /\ UNCHANGED <<selectedIds, isLoading, scanPc, scanCaller>>
    /\ UNCHANGED <<persisted, isStarted, allFiles, durations, ratings,
                   minRating, minDuration, maxDuration, boundsDurMax,
                   rootHandle, metadataQueue, scanFiles, workerVars,
                   callVars, autoVars, activeFileId, isPlaying, waveformData,
                   audioSrc, audioPaused, lastUrl, liveUrls, skipTimers,
                   modeVars, histVars, viewVars, treeVars, uiQuiet>>
    /\ Notice(failAt # 0, MoveNoticeDelay)

\* ------------------------------------------------------ move shortcuts
SHORTCUT_KEY_SEQUENCE == <<"z", "x", "c", "v", "b", "n", "m">>

ShortcutKeys ==
    {SHORTCUT_KEY_SEQUENCE[i] : i \in 1..Len(SHORTCUT_KEY_SEQUENCE)}

\* availableFolders: the folders the last scan of a picked directory found
AvailableFolders == IF isStarted /\ rootHandle THEN <<"sub">> ELSE <<>>

\* the keys of the shortcuts on show
KeysInUse == {moveShortcuts[i].key : i \in 1..Len(moveShortcuts)}

shortcutFrame == <<libVars, workerVars, callVars, autoVars, audioVars,
                   modeVars, histVars, moveVars, viewVars, treeVars,
                   sortVars, matchVars, scrollVars, typeVars, noticeVars,
                   flatVars>>

\* "SHORTCUT_KEY_SEQUENCE[nextIndex]" with nextIndex = moveShortcuts.length
NextKey(shortcuts) == SHORTCUT_KEY_SEQUENCE[Len(shortcuts) + 1]

\* addMoveShortcut; the button is pressed while fewer than MaxShortcuts
\* shortcuts are on show
AddMoveShortcut ==
    /\ isStarted
    /\ Len(moveShortcuts) < MaxShortcuts
    /\ IF Len(moveShortcuts) >= Len(SHORTCUT_KEY_SEQUENCE)
       THEN UNCHANGED shortcutVars
       ELSE /\ moveShortcuts' =
                  Append(moveShortcuts,
                         [key |-> NextKey(moveShortcuts),
                          targetPath |-> IF AvailableFolders # <<>>
                                         THEN AvailableFolders[1] ELSE ""])
            /\ savedShortcuts' = moveShortcuts'
    /\ UNCHANGED shortcutFrame

\* updateShortcutTarget: the select of the shortcut with this key
UpdateShortcutTarget(key, targetPath) ==
    /\ isStarted
    /\ key \in KeysInUse
    /\ targetPath \in {""} \cup SeqToSet(AvailableFolders)
    /\ moveShortcuts' =
          [i \in 1..Len(moveShortcuts) |->
              IF moveShortcuts[i].key = key
              THEN [moveShortcuts[i] EXCEPT !.targetPath = targetPath]
              ELSE moveShortcuts[i]]
    /\ savedShortcuts' = moveShortcuts'
    /\ UNCHANGED shortcutFrame

\* removeShortcut: the button of the shortcut with this key
RemoveShortcut(key) ==
    /\ isStarted
    /\ key \in KeysInUse
    /\ moveShortcuts' = SelectSeq(moveShortcuts, LAMBDA s : s.key # key)
    /\ savedShortcuts' = moveShortcuts'
    /\ UNCHANGED shortcutFrame

\* "moveShortcuts.find(s => s.key === key)": the first shortcut of the key
MatchedShortcut(key) ==
    moveShortcuts[CHOOSE i \in 1..Len(moveShortcuts) :
                     /\ moveShortcuts[i].key = key
                     /\ \A j \in 1..(i - 1) : moveShortcuts[j].key # key]

\* handleKeyDown on the key of a shortcut whose folder is found
ShortcutKeyDown(key, failAt) ==
    /\ isStarted /\ ~isLoading
    /\ key \in KeysInUse
    /\ MatchedShortcut(key).targetPath \in SeqToSet(AvailableFolders)
    /\ HandleBatchMove(failAt)

\* ------------------------------------------------------------- filters
\* the "Favorites (Rating)" slider
SetMinRating(m) ==
    /\ isStarted
    /\ m # minRating
    /\ minRating' = m
    /\ AutoLoadEffect(hasAutoLoadedFirst, autoLoads, isStarted, isLoading,
                      Filtered(allFiles, durations, ratings, m,
                               minDuration, maxDuration))
    /\ UNCHANGED <<disk, persisted, isStarted, isLoading, allFiles,
                   durations, ratings, minDuration, maxDuration,
                   boundsDurMax, rootHandle, metadataQueue, scanPc,
                   scanCaller, scanFiles, workerVars, audioVars, modeVars,
                   moveVars, uiVars, treeVars, viewVars, histVars>>

\* clearTimeout(timer) in the cleanup of the debounce effect: the timer
\* the previous run of the effect scheduled, the latest one, is dropped
ClearTimeout_Skip(timers) == timers
ClearTimeout(timers) ==
    IF timers = <<>> THEN <<>> ELSE SubSeq(timers, 1, Len(timers) - 1)

\* the debounce effect, run because searchText became q
DebounceEffect(q) ==
    debounceTimers' = Append(ClearTimeout(debounceTimers),
                             [text |-> q, left |-> DebounceDelay])

\* onChange of the search input: setSearchText(q)
TypeSearch(q) ==
    /\ isStarted
    /\ q # searchText
    /\ searchText' = q
    /\ textAge' = 0
    /\ DebounceEffect(q)
    /\ UNCHANGED <<libVars, workerVars, callVars, autoVars, audioVars,
                   modeVars, histVars, moveVars, viewVars, treeVars,
                   sortVars, matchVars, sideVars, scrollVars, noticeVars>>

\* a timer of the debounce effect fires: setDebouncedSearch(text)
DebounceFire ==
    \E i \in 1..Len(debounceTimers) :
       /\ debounceTimers[i].left = 0
       /\ debounceTimers' = SubSeq(debounceTimers, 1, i - 1)
                             \o SubSeq(debounceTimers, i + 1,
                                       Len(debounceTimers))
       /\ debouncedSearch' = debounceTimers[i].text
       /\ IF debounceTimers[i].text = debouncedSearch
          THEN UNCHANGED <<callVars, autoVars>>
          ELSE AutoLoadEffect(hasAutoLoadedFirst, autoLoads, isStarted,
                              isLoading,
                              FilteredWith(debounceTimers[i].text, allFiles,
                                           durations, ratings, minRating,
                                           minDuration, maxDuration))
       /\ UNCHANGED <<libVars, workerVars, audioVars, modeVars, moveVars,
                      treeVars, expandedFolders, histVars, sortVars,
                      matchVars, sideVars, scrollVars, searchText, textAge,
                      noticeVars>>

\* the ms left of the pending timers
TimersLeft ==
    {debounceTimers[i].left : i \in 1..Len(debounceTimers)}
       \cup SeqToSet(noticeTimers)

\* Time passes: dt ms, or the time to the next due timer when that is
\* less; no time passes while a due timer has not fired.
Tick(dt) ==
    LET step == CHOOSE n \in TimersLeft \cup {dt} :
                   \A m \in TimersLeft \cup {dt} : n <= m
    IN  /\ step > 0
        /\ \/ TimersLeft # {}
           \/ textAge < DebounceDelay
           \/ error # "none" /\ noticeAge < NoticeCap
        /\ debounceTimers' = [i \in 1..Len(debounceTimers) |->
                                [debounceTimers[i] EXCEPT !.left = @ - step]]
        /\ noticeTimers' = [i \in 1..Len(noticeTimers) |->
                              noticeTimers[i] - step]
        /\ textAge' = IF textAge + step < DebounceDelay
                      THEN textAge + step ELSE DebounceDelay
        /\ noticeAge' = IF error = "none" THEN noticeAge
                        ELSE IF noticeAge + step < NoticeCap
                        THEN noticeAge + step ELSE NoticeCap
        /\ UNCHANGED <<libVars, workerVars, callVars, autoVars, audioVars,
                       modeVars, histVars, moveVars, viewVars, treeVars,
                       sortVars, matchVars, sideVars, scrollVars, searchText>>

\* a timer of a notice fires: setError(null)
NoticeFire ==
    \E i \in 1..Len(noticeTimers) :
       /\ noticeTimers[i] = 0
       /\ noticeTimers' = SubSeq(noticeTimers, 1, i - 1)
                           \o SubSeq(noticeTimers, i + 1, Len(noticeTimers))
       /\ error' = "none"
       /\ UNCHANGED <<libVars, workerVars, callVars, autoVars, activeFileId,
                      isPlaying, waveformData, audioSrc, audioPaused,
                      lastUrl, liveUrls, skipTimers, modeVars, histVars,
                      moveVars, viewVars, treeVars, uiQuiet, noticeAge>>

\* handleLocateFile(path): the locate button of a file row
HandleLocateFile(p) ==
    /\ isStarted
    /\ FileRow(p) \in SeqToSet(FlattenedList)
    /\ Len(noticeTimers) < MaxNotices
    /\ error' = "located"
    /\ RaiseNotice(LocateNoticeDelay)
    /\ UNCHANGED <<libVars, workerVars, callVars, autoVars, activeFileId,
                   isPlaying, waveformData, audioSrc, audioPaused,
                   lastUrl, liveUrls, skipTimers, modeVars, histVars,
                   moveVars, viewVars, treeVars, uiQuiet>>

\* the "Length" slider: one thumb (isMin: the lower one) is dragged to val
DragDuration(isMin, val) ==
    /\ isStarted
    /\ val \in 0..boundsDurMax
    /\ minDuration' = IF isMin THEN (IF val <= maxDuration THEN val
                                                          ELSE maxDuration)
                               ELSE minDuration
    /\ maxDuration' = IF isMin THEN maxDuration
                               ELSE Max(val, minDuration)
    /\ <<minDuration', maxDuration'>> # <<minDuration, maxDuration>>
    /\ AutoLoadEffect(hasAutoLoadedFirst, autoLoads, isStarted, isLoading,
                      Filtered(allFiles, durations, ratings, minRating,
                               minDuration', maxDuration'))
    /\ UNCHANGED <<disk, persisted, isStarted, isLoading, allFiles,
                   durations, ratings, minRating, boundsDurMax, rootHandle,
                   metadataQueue, scanPc, scanCaller, scanFiles, workerVars,
                   audioVars, modeVars, moveVars, uiVars,
                   treeVars, viewVars, histVars>>

\* toggleFolder: the row of the directory "sub" is clicked
ToggleFolder(id) ==
    /\ isStarted
    /\ DirRow(id) \in SeqToSet(FlattenedList)
    /\ expandedFolders' = IF id \in expandedFolders
                          THEN expandedFolders \ {id}
                          ELSE expandedFolders \cup {id}
    /\ UNCHANGED <<libVars, workerVars, callVars, autoVars, audioVars,
                   modeVars, moveVars, uiVars, treeVars, debouncedSearch,
                   histVars>>

\* handleScroll: the container reports its scroll offset, which the
\* browser keeps between 0 and the height of the content beyond the viewport
ScrollMax == Max(0, (Len(FlattenedList) * ROW_HEIGHT) - viewportHeight)

HandleScroll(top) ==
    /\ isStarted
    /\ top # scrollTop
    /\ top <= ScrollMax
    /\ scrollTop' = top
    /\ UNCHANGED <<libVars, workerVars, callVars, autoVars, audioVars,
                   modeVars, histVars, moveVars, viewVars, treeVars,
                   sortVars, matchVars, sideVars, typeVars, noticeVars,
                   viewportHeight>>

\* the ResizeObserver callback: the container has a new content height
Resize(height) ==
    /\ isStarted
    /\ height # viewportHeight
    /\ viewportHeight' = height
    /\ UNCHANGED <<libVars, workerVars, callVars, autoVars, audioVars,
                   modeVars, histVars, moveVars, viewVars, treeVars,
                   sortVars, matchVars, sideVars, typeVars, noticeVars,
                   scrollTop>>

\* handleSortClick(key): a click on one of the sort buttons
HandleSortClick(key) ==
    /\ isStarted
    /\ IF sortKey = key
       THEN /\ sortOrder' = IF sortOrder = "asc" THEN "desc" ELSE "asc"
            /\ UNCHANGED sortKey
       ELSE /\ sortKey' = key
            /\ sortOrder' = "asc"
    /\ AutoLoadEffect(hasAutoLoadedFirst, autoLoads, isStarted, isLoading,
                      FilteredSorted(sortKey', sortOrder', debouncedSearch,
                                     allFiles, durations, ratings, minRating,
                                     minDuration, maxDuration))
    /\ UNCHANGED <<libVars, workerVars, audioVars, modeVars, moveVars,
                   viewVars, treeVars, histVars, matchVars, sideVars,
                   scrollVars,
                   typeVars, noticeVars>>

\* handleRate(id, rating)
Rate(p, r) ==
    /\ isStarted
    /\ p \in SeqToSet(allFiles)
    /\ ratings[p] # r
    /\ ratings' = [ratings EXCEPT ![p] = r]
    /\ AutoLoadEffect(hasAutoLoadedFirst, autoLoads, isStarted, isLoading,
                      Filtered(allFiles, durations, ratings', minRating,
                               minDuration, maxDuration))
    /\ UNCHANGED <<disk, persisted, isStarted, isLoading, allFiles,
                   durations, minRating, minDuration, maxDuration,
                   boundsDurMax, rootHandle, metadataQueue, scanPc,
                   scanCaller, scanFiles, workerVars, audioVars, modeVars,
                   moveVars, uiVars, treeVars, viewVars, histVars>>

\* "Reset All"
ResetFilters ==
    /\ isStarted
    /\ minDuration' = 0
    /\ maxDuration' = boundsDurMax
    /\ minRating' = 0
    /\ searchText' = <<>>
    /\ IF searchText = <<>>
       THEN UNCHANGED <<debounceTimers, textAge>>
       ELSE textAge' = 0 /\ DebounceEffect(<<>>)
    /\ AutoLoadEffect(hasAutoLoadedFirst, autoLoads, isStarted, isLoading,
                      Filtered(allFiles, durations, ratings, 0, 0,
                               boundsDurMax))
    /\ UNCHANGED <<disk, persisted, isStarted, isLoading, allFiles,
                   durations, ratings, boundsDurMax, rootHandle,
                   metadataQueue, scanPc, scanCaller, scanFiles, workerVars,
                   audioVars, modeVars, moveVars, sortVars, matchVars,
                   sideVars,
                   scrollVars, noticeVars, treeVars, viewVars, histVars>>

\* ------------------------------------------------- the enrichment worker
\* faulty variant: the flush keeps only the batch
MergeBatch_Replace(prev, b) == b

\* "{ ...prev, ...currentBatch }" of the flush
MergeBatch(prev, b) ==
    [p \in Paths |-> IF b[p] # 0 THEN b[p] ELSE prev[p]]

\* faulty variant: the flush test without the batch size
FlushDue_NoSize(n, elapsed) ==
    (elapsed /\ n > 0) \/ metadataQueue = <<>>

\* the flush test; elapsed: performance.now() - lastBatchTime > 500
FlushDue(n, elapsed) ==
    n >= BatchFlushSize \/ (elapsed /\ n > 0) \/ metadataQueue = <<>>

\* What follows the try block of one loop iteration: the flush test, the
\* flush, and either the yield or the next "metadataQueueRef.current.shift()".
\* elapsed: performance.now() - lastBatchTime > 500.
AfterItem(b, n, lm, elapsed) ==
    IF FlushDue(n, elapsed)
    THEN /\ durations' = MergeBatch(durations, b)
         /\ persisted' = durations'          \* saveMetadata('durations', next)
         /\ boundsDurMax' = IF lm > wBoundsMax THEN Max(boundsDurMax, lm)
                                               ELSE boundsDurMax
         \* the render after setBounds runs the enrichment effect again
         /\ IF boundsDurMax' # boundsDurMax
               /\ EnrichGuard(isStarted, metadataQueue)
            THEN StartWorker(metadataQueue, boundsDurMax')
            ELSE /\ batch' = NoDurations
                 /\ batchSize' = 0
                 /\ lastMaxDuration' = lm
                 /\ wpc' = "yield"
                 /\ UNCHANGED <<wFile, metadataQueue, isEnriching, workers,
                                wBoundsMax>>
         /\ AutoLoadEffect(hasAutoLoadedFirst, autoLoads, isStarted,
                           isLoading,
                           Filtered(allFiles, durations', ratings, minRating,
                                    minDuration, maxDuration))
    ELSE /\ batch' = b
         /\ batchSize' = n
         /\ lastMaxDuration' = lm
         /\ wFile' = Shift(metadataQueue)[1]
         /\ metadataQueue' = Shift(metadataQueue)[2]
         /\ wpc' = "getFile"
         /\ UNCHANGED <<durations, persisted, boundsDurMax, isEnriching,
                        workers, wBoundsMax, autoVars, callVars>>

\* the step has flushed the batch (every flush is followed by the yield)
FlushCount ==
    IF wpc' = "yield" /\ flushes < FlushCap THEN flushes + 1 ELSE flushes

\* "await fileItem.handle.getFile()" settles; a file that is gone throws
\* and the empty catch swallows it
WGetFile ==
    /\ wpc = "getFile"
    /\ IF wFile \in disk
       THEN /\ wpc' = "probe"
            /\ UNCHANGED <<durations, persisted, boundsDurMax, metadataQueue,
                           isEnriching, workers, wFile, batch, batchSize,
                           lastMaxDuration, wBoundsMax, autoVars, callVars>>
       ELSE \E elapsed \in BOOLEAN :
                AfterItem(batch, batchSize, lastMaxDuration, elapsed)
    /\ UNCHANGED <<disk, isStarted, isLoading, allFiles, ratings, minRating,
                   minDuration, maxDuration, rootHandle, scanPc, scanCaller,
                   scanFiles, audioVars, modeVars, moveVars, uiVars,
                   treeVars, viewVars,
                   sessions,
                   probedOk>>
    /\ flushes' = FlushCount

\* "await getAudioDuration(file, name)" settles: the file's duration, or 0
\* on error or after the 2 s timeout
WProbe(d) ==
    /\ wpc = "probe"
    /\ probedOk' = IF d > 0 THEN probedOk \cup {wFile} ELSE probedOk
    /\ \E elapsed \in BOOLEAN :
         IF d > 0
         THEN AfterItem([batch EXCEPT ![wFile] = d], batchSize + 1,
                        IF d > lastMaxDuration THEN d ELSE lastMaxDuration,
                        elapsed)
         ELSE AfterItem(batch, batchSize, lastMaxDuration, elapsed)
    /\ UNCHANGED <<disk, isStarted, isLoading, allFiles, ratings, minRating,
                   minDuration, maxDuration, rootHandle, scanPc, scanCaller,
                   scanFiles, audioVars, modeVars, moveVars, uiVars,
                   treeVars, viewVars,
                   sessions>>
    /\ flushes' = FlushCount

\* the 100 ms yield after a flush is over: the loop test, then the next
\* shift or the end of the pass
WYield ==
    /\ wpc = "yield"
    /\ IF metadataQueue # <<>>
       THEN /\ wFile' = Shift(metadataQueue)[1]
            /\ metadataQueue' = Shift(metadataQueue)[2]
            /\ wpc' = "getFile"
            /\ UNCHANGED <<isEnriching, workers, flushes>>
       ELSE /\ isEnriching' = FALSE
            /\ workers' = workers - 1
            /\ wpc' = "idle"
            /\ flushes' = 0
            /\ UNCHANGED <<wFile, metadataQueue>>
    /\ UNCHANGED <<disk, persisted, isStarted, isLoading, allFiles,
                   durations, ratings, minRating, minDuration, maxDuration,
                   boundsDurMax, rootHandle, scanPc, scanCaller, scanFiles,
                   batch, batchSize, lastMaxDuration, wBoundsMax, callVars,
                   autoVars, audioVars, modeVars, moveVars, uiVars, treeVars,
                   viewVars,
                   sessions, probedOk>>

\* ------------------------------------------------- the library session
NextLibrary ==
    \/ PickDirectory
    \/ ScanDone
    \/ CacheRead
    \/ Eject
    \/ LegacyImport
    \/ \E p \in Paths : BatchMove(p)
    \/ \E m \in {0, MaxRating} : SetMinRating(m)
    \/ ResetFilters
    \/ WGetFile
    \/ \E d \in {0, FileDuration(wFile)} : WProbe(d)
    \/ WYield

SpecLibrary == Init /\ [][NextLibrary]_vars

\* ------------------------------------------------- the playback sequencer
\* JavaScript's % (the sign of the result is the sign of the dividend)
JsRem(a, n) == IF a >= 0 THEN a % n ELSE 0 - ((0 - a) % n)

\* Array.prototype.findIndex(f => f.id === id): 0-based, -1 when absent
FindIndex(list, id) ==
    IF \E i \in 1..Len(list) : list[i] = id
    THEN (CHOOSE i \in 1..Len(list) :
              list[i] = id /\ \A j \in 1..(i - 1) : list[j] # id) - 1
    ELSE 0 - 1

\* list[idx] of a JavaScript array: undefined (0) outside 0..length-1
At(list, idx) == IF idx >= 0 /\ idx < Len(list) THEN list[idx + 1] ELSE 0

\* faulty variant: the end of the list is not wrapped
NextIndex_Clamp(currentIdx, n) ==
    IF currentIdx + 1 >= n THEN n - 1 ELSE currentIdx + 1

NextIndex(currentIdx, n) == JsRem(currentIdx + 1, n)

\* faulty variant: the length is not added before the remainder is taken
PrevIndex_NoWrap(currentIdx, n) == JsRem(currentIdx - 1, n)

PrevIndex(currentIdx, n) == JsRem(currentIdx - 1 + n, n)

\* faulty variant: the loop branch without the test of forceNext
LoopReplay_Forced(force) ==
    isLooping /\ FindIndex(FilteredFiles, activeFileId) >= 0

\* the loop branch of playNext is taken
LoopReplay(force) ==
    ~force /\ isLooping /\ FindIndex(FilteredFiles, activeFileId) >= 0

\* faulty variant: every advance starts playback
NextShouldPlay_Always(force) == TRUE

\* shouldPlay of the file playNext moves to
NextShouldPlay(force) == IF force THEN isPlaying ELSE TRUE

\* playNext(forceNext), on a non-empty filtered list
PlayNext(force, caller) ==
    IF FilteredFiles = <<>>
    THEN UNCHANGED callVars
    ELSE IF LoopReplay(force)
    THEN PlayFile("file", activeFileId, TRUE, caller)
    ELSE \E nextIdx \in
              IF isRandom THEN 0..(Len(FilteredFiles) - 1)
              ELSE {NextIndex(FindIndex(FilteredFiles, activeFileId),
                              Len(FilteredFiles))} :
           /\ At(FilteredFiles, nextIdx) # 0
           /\ PlayFile("file", At(FilteredFiles, nextIdx),
                       NextShouldPlay(force), caller)

userFrame == <<libVars, workerVars, autoVars, audioVars, modeVars,
              moveVars, uiVars, treeVars, viewVars, histVars>>

\* a click on a file row of the explorer: onFileSelect(item)
SelectFile(p) ==
    /\ isStarted
    /\ p \in SeqToSet(allFiles)
    /\ PlayFile("file", p, TRUE, "select")
    /\ UNCHANGED userFrame

\* playFile handed the entry of the directory "sub" (the rows of the
\* explorer hand it files only; its first line answers for the rest)
SubItem == (2 * NumFiles) + 1

PlayDirectory ==
    /\ isStarted
    /\ PlayFile("directory", SubItem, TRUE, "select")
    /\ UNCHANGED userFrame

\* ArrowRight: playNext(true)
SkipForward ==
    /\ isStarted /\ ~isLoading
    /\ PlayNext(TRUE, "skip")
    /\ UNCHANGED userFrame

\* the audio element's onEnded: playNext(false)
Ended ==
    /\ isStarted /\ audioSrc # NoSource /\ ~audioPaused
    /\ PlayNext(FALSE, "ended")
    /\ UNCHANGED userFrame

\* ArrowLeft: playPrev()
PlayPrev ==
    /\ isStarted /\ ~isLoading
    /\ IF FilteredFiles = <<>>
       THEN UNCHANGED callVars
       ELSE \E prevIdx \in
                 IF isRandom THEN 0..(Len(FilteredFiles) - 1)
                 ELSE {PrevIndex(FindIndex(FilteredFiles, activeFileId),
                                 Len(FilteredFiles))} :
              /\ At(FilteredFiles, prevIdx) # 0
              /\ PlayFile("file", At(FilteredFiles, prevIdx), isPlaying,
                          "prev")
    /\ UNCHANGED userFrame

\* the 250 ms timer of the catch block: playNextRef.current?.(true)
SkipTimerFire ==
    /\ skipTimers > 0
    /\ skipTimers' = skipTimers - 1
    /\ IF FilteredFiles = <<>>
       THEN UNCHANGED callVars
       ELSE PlayNext(TRUE, "recover")
    /\ UNCHANGED <<libVars, workerVars, autoVars, activeFileId, isPlaying,
                   waveformData, error, audioSrc, audioPaused, lastUrl,
                   liveUrls, modeVars, moveVars, uiVars, treeVars, viewVars,
                   histVars>>

\* the space bar: play or pause the audio element (onPlay / onPause)
TogglePlay ==
    /\ isStarted /\ ~isLoading
    /\ IF audioPaused
       THEN audioSrc # NoSource /\ audioPaused' = FALSE /\ isPlaying' = TRUE
       ELSE audioPaused' = TRUE /\ isPlaying' = FALSE
    /\ UNCHANGED <<libVars, workerVars, callVars, autoVars, activeFileId,
                   waveformData, error, audioSrc, lastUrl, liveUrls,
                   skipTimers, modeVars, moveVars, uiVars,
                   treeVars, viewVars, histVars>>

ToggleRandom ==
    /\ isStarted
    /\ isRandom' = ~isRandom
    /\ UNCHANGED <<libVars, workerVars, callVars, autoVars, audioVars,
                   isLooping, histVars, moveVars, uiVars, treeVars, viewVars>>

ToggleLooping ==
    /\ isStarted
    /\ isLooping' = ~isLooping
    /\ UNCHANGED <<libVars, workerVars, callVars, autoVars, audioVars,
                   isRandom, histVars, moveVars, uiVars, treeVars, viewVars>>

\* ------------------------------------------------- one playFile attempt
attemptFrame == <<libVars, workerVars, autoVars, modeVars, moveVars, uiQuiet,
                  treeVars,
                  debouncedSearch, histVars, playRequestCount, lastItem>>

\* "if (requestId !== playRequestCount.current) return", else go on to pc
Checked(r, pc) ==
    IF r = playRequestCount THEN [attempts[r] EXCEPT !.pc = pc]
                            ELSE Finished("done")

\* faulty variant: the catch block does not consult the generation
Fail_Loud(r) ==
    /\ attempts' = [attempts EXCEPT ![r] = Finished("failed")]
    /\ error' = "load failed"
    /\ RaiseNotice(LoadNoticeDelay)
    /\ waveformData' = 0
    /\ skipTimers' = IF attempts[r].shouldPlay THEN skipTimers + 1
                                               ELSE skipTimers

\* faulty variant: the catch block schedules the skip for previews too
Fail_AlwaysSkip(r) ==
    /\ attempts' = [attempts EXCEPT ![r] = Finished("failed")]
    /\ IF r = playRequestCount
       THEN /\ error' = "load failed"
            /\ RaiseNotice(LoadNoticeDelay)
            /\ waveformData' = 0
            /\ skipTimers' = skipTimers + 1
       ELSE UNCHANGED <<error, waveformData, skipTimers, noticeVars>>

\* the catch block of playFile
Fail(r) ==
    /\ attempts' = [attempts EXCEPT ![r] = Finished("failed")]
    /\ IF r = playRequestCount
       THEN /\ error' = "load failed"
            /\ RaiseNotice(LoadNoticeDelay)
            /\ waveformData' = 0
            /\ skipTimers' = IF attempts[r].shouldPlay THEN skipTimers + 1
                                                       ELSE skipTimers
       ELSE UNCHANGED <<error, waveformData, skipTimers, noticeVars>>

\* faulty variant: the previous URL is left alive
Revoke_Skip(urls, last) == urls

\* "if (lastUrlRef.current) URL.revokeObjectURL(lastUrlRef.current)"
Revoke(urls, last) == urls \ {last}

\* "await initAudioCtx()" and then "await item.handle.getFile()" settle (no
\* statement between the two touches shared state).  On success of getFile:
\* the previous object URL is revoked, a new one created, setActiveFileId,
\* and the audio element (when mounted) is paused and emptied before the
\* 10 ms wait.  pauseEvent: the element's "pause" event reaches onPause
\* before load() drops the element's pending events.
\* lastCall names the caller of the latest playFile call until that call's
\* first await is over.
GetFileDone(r, ok, pauseEvent) ==
    /\ attempts[r].pc = "open"
    /\ lastCall' = IF r = playRequestCount THEN "none" ELSE lastCall
    /\ IF ~ok
       THEN /\ Fail(r)
            /\ UNCHANGED <<activeFileId, isPlaying, audioSrc, audioPaused,
                           lastUrl, liveUrls, expandedFolders>>
       ELSE /\ liveUrls' = Revoke(liveUrls, lastUrl) \cup {r}
            /\ lastUrl' = r
            /\ activeFileId' = attempts[r].item
            \* the explorer's effect on activeId
            /\ expandedFolders' =
                  IF isStarted /\ attempts[r].item # activeFileId
                  THEN ExpandParents(expandedFolders, attempts[r].item)
                  ELSE expandedFolders
            /\ IF isStarted
               THEN /\ audioPaused' = TRUE
                    /\ isPlaying' = IF ~audioPaused /\ pauseEvent
                                    THEN FALSE ELSE isPlaying
                    /\ audioSrc' = NoSource
                    /\ attempts' = [attempts EXCEPT ![r].pc = "swap"]
               ELSE /\ attempts' = [attempts EXCEPT
                                       ![r] = Checked(r, "decode")]
                    /\ UNCHANGED <<audioPaused, isPlaying, audioSrc>>
            /\ UNCHANGED <<error, waveformData, skipTimers, noticeVars>>
    /\ UNCHANGED attemptFrame

\* the 10 ms wait is over: "audioRef.current.src = url", load(), and either
\* the call of play() or setIsPlaying(false) and the first generation check.
\* With the element unmounted the assignment throws.
SwapDone(r) ==
    /\ attempts[r].pc = "swap"
    /\ IF ~isStarted
       THEN /\ Fail(r)
            /\ UNCHANGED <<isPlaying, audioSrc>>
       ELSE /\ audioSrc' = Source(r)
            /\ IF attempts[r].shouldPlay
               THEN /\ attempts' = [attempts EXCEPT ![r].pc = "playStart"]
                    /\ UNCHANGED isPlaying
               ELSE /\ isPlaying' = FALSE
                    /\ attempts' = [attempts EXCEPT
                                       ![r] = Checked(r, "decode")]
            /\ UNCHANGED <<error, waveformData, skipTimers, noticeVars>>
    /\ UNCHANGED <<attemptFrame, expandedFolders, lastCall, activeFileId,
                   audioPaused,
                   lastUrl, liveUrls>>

\* "await playPromise" settles: playback started (onPlay, then
\* setIsPlaying(true)), or the promise was rejected with AbortError
\* (swallowed), or with another error (rethrown)
PlayStartDone(r, outcome) ==
    /\ attempts[r].pc = "playStart"
    /\ CASE outcome = "ok" ->
              /\ isStarted /\ audioSrc.url = r
              /\ audioPaused' = FALSE
              /\ isPlaying' = TRUE
              /\ attempts' = [attempts EXCEPT ![r] = Checked(r, "decode")]
              /\ UNCHANGED <<error, waveformData, skipTimers, noticeVars>>
         [] outcome = "abort" ->
              /\ attempts' = [attempts EXCEPT ![r] = Checked(r, "decode")]
              /\ UNCHANGED <<audioPaused, isPlaying, error, waveformData,
                             skipTimers, noticeVars>>
         [] outcome = "error" ->
              /\ Fail(r)
              /\ UNCHANGED <<audioPaused, isPlaying>>
    /\ UNCHANGED <<attemptFrame, expandedFolders, lastCall, activeFileId,
                   audioSrc, lastUrl,
                   liveUrls>>

\* "await file.arrayBuffer()" and then "await decodeAudioData(arrayBuffer)"
\* settle (ok: both succeed): the second generation check, then
\* setWaveformData (a waveform is named by the file it was computed from)
DecodeDone(r, ok) ==
    /\ attempts[r].pc = "decode"
    /\ IF ok
       THEN /\ attempts' = [attempts EXCEPT ![r] = Finished("done")]
            /\ waveformData' = IF r = playRequestCount
                               THEN attempts[r].item ELSE waveformData
            /\ UNCHANGED <<error, skipTimers, noticeVars>>
       ELSE Fail(r)
    /\ UNCHANGED <<attemptFrame, expandedFolders, lastCall, activeFileId,
                   isPlaying, audioSrc,
                   audioPaused, lastUrl, liveUrls>>

AttemptStep(r) ==
    \/ \E ok \in BOOLEAN, pauseEvent \in BOOLEAN :
           GetFileDone(r, ok, pauseEvent)
    \/ SwapDone(r)
    \/ \E outcome \in {"ok", "abort", "error"} : PlayStartDone(r, outcome)
    \/ \E ok \in BOOLEAN : DecodeDone(r, ok)

\* A return visit: short files under the root, all of them cached.
InitCached(files) ==
    /\ InitBase
    /\ scanHandle = NoHandle
    /\ disk = files
    /\ persisted = [p \in Paths |-> IF p \in files THEN FileDuration(p)
                                                    ELSE 0]
    /\ durations = persisted          \* loadPersisted

\* ------------------------------------------- overlapping play attempts
InitPlay == InitCached({2, 3})

NextPlay ==
    \/ PickDirectory
    \/ ScanDone
    \/ CacheRead
    \/ \E p \in Paths : SelectFile(p)
    \/ SkipForward
    \/ Ended
    \/ PlayPrev
    \/ SkipTimerFire
    \/ TogglePlay
    \/ \E r \in 1..MaxPlays : AttemptStep(r)

SpecPlay == InitPlay /\ [][NextPlay]_vars

\* ------------------------------------------------------- navigation
\* The listener waits for a load to finish before the next request.
InFlight ==
    \E r \in 1..MaxPlays : attempts[r].pc \notin {"none", "done", "failed"}

InitNav == InitCached({2, 3, 4})

NextNav ==
    \/ PickDirectory
    \/ ScanDone
    \/ CacheRead
    \/ ~InFlight /\ \E p \in Paths : SelectFile(p)
    \/ ~InFlight /\ SkipForward
    \/ ~InFlight /\ Ended
    \/ ~InFlight /\ PlayPrev
    \/ ~InFlight /\ SkipTimerFire
    \/ TogglePlay
    \/ ToggleRandom
    \/ ToggleLooping
    \/ \E m \in {0, MaxRating} : SetMinRating(m)
    \/ \E r \in {0, MaxRating} : Rate(activeFileId, r)
    \/ \E r \in 1..MaxPlays : AttemptStep(r)

SpecNav == InitNav /\ [][NextNav]_vars

\* the same visit, with playFile handed a directory entry as well
NextGeneration == NextNav \/ PlayDirectory

SpecGeneration == InitNav /\ [][NextGeneration]_vars


\* ------------------------------------------- a pass over a large library
\* The import of a library of NumFiles files, nothing cached.  The probe of
\* a file may fail or time out only for the first MaxUnreliable files.
InitBatch ==
    /\ InitBase
    /\ scanHandle = NoHandle
    /\ disk = 1..NumFiles
    /\ persisted = NoDurations
    /\ durations = persisted          \* loadPersisted

ProbeResults(p) ==
    IF Phys(p) <= MaxUnreliable THEN {0, FileDuration(p)}
                                ELSE {FileDuration(p)}

NextBatch ==
    \/ LegacyImport
    \/ WGetFile
    \/ \E d \in ProbeResults(wFile) : WProbe(d)
    \/ WYield

SpecBatch == InitBatch /\ [][NextBatch]_vars

\* ------------------------------------------------ moving a selection
\* A return visit to three cached files under the root; some of them are
\* selected and moved into "sub".
InitMove == InitCached({2, 3, 4})

NextMove ==
    \/ PickDirectory
    \/ ScanDone
    \/ CacheRead
    \/ \E p \in Paths : ToggleSelection(p)
    \/ SelectAll
    \/ \E failAt \in 0..Len(ItemsToMove) : HandleBatchMove(failAt)

SpecMove == InitMove /\ [][NextMove]_vars

\* ------------------------------------------------ the shortcuts panel
\* A return visit to one cached file; shortcuts are added, retargeted and
\* removed, the file is selected, and the key of a shortcut is pressed.
InitShortcut == InitCached({2})

NextShortcut ==
    \/ PickDirectory
    \/ ScanDone
    \/ CacheRead
    \/ AddMoveShortcut
    \/ \E key \in ShortcutKeys, targetPath \in {"", "sub"} :
          UpdateShortcutTarget(key, targetPath)
    \/ \E key \in ShortcutKeys : RemoveShortcut(key)
    \/ \E p \in SeqToSet(allFiles) : ToggleSelection(p)
    \/ \E key \in ShortcutKeys, failAt \in 0..1 : ShortcutKeyDown(key, failAt)

SpecShortcut == InitShortcut /\ [][NextShortcut]_vars

\* ---------------------------------------------- the list and the tree
\* A return visit to a long and a short file under the root and two short
\* files inside "sub", all of them cached; the filters are moved and the
\* directory is opened and closed.
InitView == InitCached({1, 2, SubPath(2), SubPath(3)})

DurationStops == {0, 30, DefaultMaxDuration}
Queries == {<<>>, <<"b">>, <<"-", "b">>}

NextView ==
    \/ PickDirectory
    \/ ScanDone
    \/ CacheRead
    \/ \E q \in Queries : TypeSearch(q)
    \/ Tick(DebounceDelay)
    \/ DebounceFire
    \/ \E isMin \in BOOLEAN, val \in DurationStops : DragDuration(isMin, val)
    \/ \E m \in {0, MaxRating} : SetMinRating(m)
    \/ \E p \in Paths, r \in {0, MaxRating} : Rate(p, r)
    \/ ToggleFolder("sub")

SpecView == InitView /\ [][NextView]_vars

\* ------------------------------------------- a scan that meets an error
\* The root holds the file "a", a directory and the file "d", in this
\* order; the directory, named "s" or "root", holds the files "b" and "c"
\* and the text file "n".  Any file may be unreadable, and the listing of
\* the root or of the directory may break off.
DirNames == {"s", "root"}

Endings ==
    {[throws |-> FALSE, yields |-> 3]} \cup
    {[throws |-> TRUE, yields |-> k] : k \in 0..3}

SubHandles ==
    {DirEntry(name, <<FileEntry("b", TRUE, okB), FileEntry("n", FALSE, TRUE),
                      FileEntry("c", TRUE, okC)>>, end.throws, end.yields) :
        name \in DirNames, okB \in BOOLEAN, okC \in BOOLEAN,
        end \in Endings}

RootHandles ==
    {DirEntry("", <<FileEntry("a", TRUE, okA), sub,
                    FileEntry("d", TRUE, okD)>>, end.throws, end.yields) :
        okA \in BOOLEAN, okD \in BOOLEAN, sub \in SubHandles,
        end \in Endings}

InitScan ==
    /\ InitBase
    /\ disk = {} /\ persisted = NoDurations /\ durations = persisted
    /\ scanHandle \in RootHandles

NextScan == Scan

SpecScan == InitScan /\ [][NextScan]_vars

\* ------------------------------------------------ a store that may fail
\* The first visit of Init, with a persistent store whose read may fail.
NextStore ==
    \/ NextLibrary
    \/ CacheReadFails

SpecStore == Init /\ [][NextStore]_vars

\* ---------------------------------------------------- sorting the list
\* A return visit to the files of InitView; the files are rated and the
\* sort buttons are clicked.
InitSort == InitCached({1, 2, SubPath(2), SubPath(3)})

NextSort ==
    \/ PickDirectory
    \/ ScanDone
    \/ CacheRead
    \/ \E p \in Paths, r \in {0, MaxRating} : Rate(p, r)
    \/ \E key \in SortKeys : HandleSortClick(key)

SpecSort == InitSort /\ [][NextSort]_vars

\* ---------------------------------------------------- the search box
\* A return visit to the library of the explorer; texts are typed into the
\* search box, one of them the beginning of another, while time passes in
\* steps of a quarter of the debounce delay.
InitDebounce == InitCached({1, 2, SubPath(2), SubPath(3)})

TypedTexts == Queries \cup {<<"-">>}
DebounceStep == DebounceDelay \div 4

NextDebounce ==
    \/ PickDirectory
    \/ ScanDone
    \/ CacheRead
    \/ \E q \in TypedTexts : TypeSearch(q)
    \/ ResetFilters
    \/ Tick(DebounceStep)
    \/ DebounceFire

\* time passes, and a timer that is due fires
FairDebounce ==
    /\ InitDebounce /\ [][NextDebounce]_vars
    /\ WF_vars(Tick(DebounceStep))
    /\ WF_vars(DebounceFire)

\* ------------------------------------------------------- the notices
\* A return visit to one cached file: the file, loaded first, may fail to
\* load, it is located and moved into "sub", and time passes in steps
\* of NoticeStep.
InitNotice == InitCached({2})

NextNotice ==
    \/ PickDirectory
    \/ ScanDone
    \/ CacheRead
    \/ \E r \in 1..MaxPlays, ok \in BOOLEAN : GetFileDone(r, ok, FALSE)
    \/ \E r \in 1..MaxPlays : SwapDone(r)
    \/ \E r \in 1..MaxPlays, ok \in BOOLEAN : DecodeDone(r, ok)
    \/ \E p \in SeqToSet(allFiles) : HandleLocateFile(p)
    \/ \E p \in SeqToSet(allFiles) : ToggleSelection(p)
    \/ \E failAt \in 0..1 : HandleBatchMove(failAt)
    \/ Tick(NoticeStep)
    \/ DebounceFire
    \/ NoticeFire

SpecNotice == InitNotice /\ [][NextNotice]_vars

\* ------------------------------------------------ the rendered window
\* A return visit to a library of NumFiles cached files under the root;
\* the list is scrolled and the panel resized in steps of half a row.
HalfRow == ROW_HEIGHT \div 2
ScrollStops == {k * HalfRow : k \in 0..MaxScrollSteps}
ViewportStops ==
    {k * HalfRow : k \in 0..MaxViewportSteps} \cup {DefaultViewportHeight}

InitScroll == InitCached(1..NumFiles)

NextScroll ==
    \/ PickDirectory
    \/ ScanDone
    \/ CacheRead
    \/ \E top \in ScrollStops : HandleScroll(top)
    \/ \E height \in ViewportStops : Resize(height)

SpecScroll == InitScroll /\ [][NextScroll]_vars

\* ------------------------------------------- the flattening on its own
\* The explorer is handed a tree and flattens it.  The root holds the file
\* "a" and the directory "sub"; "sub" holds files and, in the nested tree,
\* the directory "sub/deep" with the file "a" of its own.  The files "c"
\* and "e" have the same size and the same type.  One file may be rated,
\* the durations may be known, a search may be active, the directories
\* may be expanded or collapsed, and every SortSpec is tried on both
\* engines.
NestedTree ==
    <<FileNode(1),
      DirNode("sub", <<FileNode(SubPath(3)),
                       DirNode("sub/deep", <<FileNode(SubPath(1))>>),
                       FileNode(SubPath(5))>>)>>
FlatTree ==
    <<FileNode(1),
      DirNode("sub", <<FileNode(SubPath(5)), FileNode(SubPath(2)),
                       FileNode(SubPath(3))>>)>>
BareTree == <<DirNode("sub", <<DirNode("sub/deep", <<>>)>>)>>

Trees == {NestedTree, FlatTree, BareTree}
TreeQueries == {<<>>, <<"c">>, <<"d">>, <<"-", "c">>}
TreeDirs == {"sub", "sub/deep"}

\* "collect" of refreshFiles: the files of the items, directory by directory
RECURSIVE Collect(_)
Collect(nodes) ==
    IF nodes = <<>> THEN <<>>
    ELSE (IF Head(nodes).kind = "file" THEN <<Head(nodes).file>>
                                       ELSE Collect(Head(nodes).children))
         \o Collect(Tail(nodes))

InitTree ==
    /\ InitRest /\ InitNoMatch
    /\ isStarted = TRUE /\ isLoading = FALSE /\ rootHandle = TRUE
    /\ scanHandle = NoHandle
    /\ fItems \in Trees
    /\ fResult = NotFlattened
    /\ sortEngine \in Engines
    /\ allFiles = Collect(fItems)
    /\ disk = SeqToSet(allFiles)
    /\ persisted \in {NoDurations,
                      [p \in Paths |-> IF p \in disk THEN FileDuration(p)
                                                     ELSE 0]}
    /\ durations = persisted
    /\ ratings \in {NoRatings, [NoRatings EXCEPT ![SubPath(3)] = MaxRating]}
    /\ minRating \in {0, MaxRating}
    /\ debouncedSearch \in TreeQueries
    /\ searchText = debouncedSearch
    /\ debounceTimers = <<>>
    /\ textAge = DebounceDelay
    /\ expandedFolders \in {{"root"} \cup ds : ds \in SUBSET TreeDirs}
    /\ sortKey \in SortKeys /\ sortOrder \in {"asc", "desc"}

\* the useMemo of flattenedList runs
Flatten ==
    /\ ~fResult.done
    /\ fResult' = [done |-> TRUE, rows |-> ProcessNodes(fItems)]
    /\ UNCHANGED <<libVars, workerVars, callVars, autoVars, audioVars,
                   modeVars, histVars, moveVars, viewVars, treeVars,
                   sortVars, matchVars, scrollVars, typeVars, noticeVars,
                   shortcutVars, fItems, sortEngine>>

NextTree == Flatten

SpecTree == InitTree /\ [][NextTree]_vars

\* -------------------------------------------- matchSmartSearch on its own
\* A text of upper and lower case letters and a query of letters, blanks,
\* dashes and slashes are handed to matchSmartSearch.
TextChars == {"k", "K", "g"}
QueryChars == {"k", "K", "g", " ", "-", "/"}
StringsUpTo(chars, n) == UNION {[1..k -> chars] : k \in 0..n}

InitMatch ==
    /\ InitApp /\ InitNoFlatten
    /\ scanHandle = NoHandle
    /\ disk = {1, 2}
    /\ persisted = NoDurations
    /\ durations = persisted
    /\ mText \in StringsUpTo(TextChars, MaxTextLen)
    /\ mQuery \in StringsUpTo(QueryChars, MaxQueryLen)
    /\ mResult = <<>>

Match ==
    /\ mResult = <<>>
    /\ mResult' = <<MatchSmartSearch(mText, mQuery)>>
    /\ UNCHANGED <<libVars, workerVars, callVars, autoVars, audioVars,
                   modeVars, histVars, moveVars, viewVars, treeVars,
                   sortVars, scrollVars, typeVars, noticeVars, sideVars,
                   mText, mQuery>>

NextMatch == Match

SpecMatch == InitMatch /\ [][NextMatch]_vars

\* The scheduling the event loop guarantees: a settled await is resumed.
\* The user's actions (pick, eject, import, move, filters) are not forced.
FairLibrary ==
    /\ SpecLibrary
    /\ WF_vars(ScanDone)
    /\ WF_vars(CacheRead)
    /\ WF_vars(WGetFile)
    /\ WF_vars(\E d \in {0, FileDuration(wFile)} : WProbe(d))
    /\ WF_vars(WYield)

\* ------------------------------------------------ claims on playback
\* the step is a call of playFile made by caller
Called(caller) ==
    playRequestCount' = playRequestCount + 1 /\ lastCall' = caller

\* the file and the shouldPlay flag of the call the step makes
CalledItem == attempts'[playRequestCount'].item
CalledShouldPlay == attempts'[playRequestCount'].shouldPlay

\* index of the active entry in the filtered list (-1: none), list length
ActiveIdx == FindIndex(FilteredFiles, activeFileId)
ListLen == Len(FilteredFiles)

\* the latest call is still before its first await
JustCalled(caller) ==
    /\ playRequestCount > 0
    /\ lastCall = caller
    /\ attempts[playRequestCount].pc = "open"

\* ------------------------------------------------------------------ C1
\* C1: when two or more play requests overlapped and all attempts are over,
\* the latest one having succeeded, activeFileId is the file of the latest
\* request and the committed waveform is that file's.
C1_LastRequestWins ==
    (/\ playRequestCount >= 2
     /\ ~InFlight
     /\ attempts[playRequestCount].pc = "done")
        => (activeFileId = lastItem /\ waveformData = lastItem)

\* ------------------------------------------------------------------ C2
\* a step of a superseded attempt leaves the playback state alone
C2_StaleStep ==
    \A r \in 1..MaxPlays :
        (/\ r # playRequestCount
         /\ playRequestCount' = playRequestCount
         /\ attempts'[r] # attempts[r])
            => UNCHANGED <<activeFileId, isPlaying, audioSrc, waveformData>>

\* C2: a step of an attempt that no longer holds the current generation
\* writes nothing to activeFileId, isPlaying, the audio element's source or
\* the waveform.
C2_StaleWritesNothing == [][C2_StaleStep]_vars

\* ------------------------------------------------------------------ C3
\* the step is an advance (playNext) that issues a play
Advance == Called("skip") \/ Called("ended") \/ Called("recover")

C3_PlaysNext ==
    CalledItem = FilteredFiles[((ActiveIdx + 1) % ListLen) + 1]

C3_AdvanceStep == (Advance /\ ~isRandom) => C3_PlaysNext

\* C3 as stated: with shuffle off, every advance plays the entry at index
\* (i + 1) mod n of the filtered list, i the index of the active entry,
\* -1 when there is none.
C3_Original == [][C3_AdvanceStep]_vars

C3_NoReplayStep ==
    (/\ Advance
     /\ ~isRandom
     /\ (~Called("ended") \/ ~isLooping \/ ActiveIdx = 0 - 1))
        => C3_PlaysNext

\* C3: with shuffle off, an advance that is forced, or made with isLooping
\* off, or made while the active entry is not in the filtered list, plays
\* the entry at index (i + 1) mod n; i = -1 when the active entry is null
\* or not in the list.
C3_Amended == [][C3_NoReplayStep]_vars

\* a skip forward from index 2 of 3 has wrapped to index 0
C3_Witness ==
    /\ JustCalled("skip")
    /\ ~isRandom /\ ListLen = 3
    /\ ActiveIdx = 2
    /\ attempts[playRequestCount].item = FilteredFiles[1]

\* ------------------------------------------------------------------ C4
C4_ValidIndex ==
    (FilteredFiles # <<>>) =>
        /\ PrevIndex(ActiveIdx, ListLen) \in 0..(ListLen - 1)
        /\ PrevIndex(ActiveIdx, ListLen) = (ActiveIdx - 1 + ListLen) % ListLen

C4_RetreatStep ==
    (Called("prev") /\ ~isRandom) =>
        CalledItem = FilteredFiles[((ActiveIdx - 1 + ListLen) % ListLen) + 1]

\* C4: with shuffle off, the index playPrev computes on a non-empty filtered
\* list is (i - 1 + n) mod n and lies in 0..n-1 (also for i = -1 and
\* n = 1), and every retreat plays the entry at that index.
C4_Retreat == [](C4_ValidIndex) /\ [][C4_RetreatStep]_vars

\* a retreat from index 0 of 3 has wrapped to index 2
C4_Witness ==
    /\ JustCalled("prev")
    /\ ~isRandom /\ ListLen = 3
    /\ ActiveIdx = 0
    /\ attempts[playRequestCount].item = FilteredFiles[3]

\* ------------------------------------------------------------------ C5
C5_ForcedStep ==
    ((Called("skip") \/ Called("recover")) /\ ~isRandom) => C3_PlaysNext

C5_LoopStep ==
    /\ (Called("ended") /\ isLooping /\ activeFileId # 0) =>
           CalledItem = activeFileId
    /\ C5_ForcedStep

\* C5 as stated: an unforced advance with isLooping on and an active entry
\* replays the active entry; a forced advance moves to the next index.
C5_Original == [][C5_LoopStep]_vars

C5_FoundStep ==
    /\ (Called("ended") /\ isLooping /\ ActiveIdx >= 0) =>
           (CalledItem = activeFileId /\ CalledShouldPlay)
    /\ (Called("ended") /\ isLooping /\ ActiveIdx < 0 /\ ~isRandom) =>
           C3_PlaysNext
    /\ C5_ForcedStep

\* C5: an unforced advance with isLooping on replays the active entry, with
\* playback started, when the active entry is in the filtered list; when it
\* is not, the advance moves to the computed index; a forced advance moves
\* to the next index whatever isLooping is.
C5_Amended == [][C5_FoundStep]_vars

\* the end of a track with isLooping on has replayed the active entry,
\* which is not the first of the list
C5_Witness ==
    /\ JustCalled("ended")
    /\ isLooping /\ ListLen >= 2
    /\ ActiveIdx >= 1
    /\ attempts[playRequestCount].item = activeFileId
    /\ attempts[playRequestCount].shouldPlay

\* ------------------------------------------------------------------ C6
C6_Step ==
    /\ Called("ended") => CalledShouldPlay
    /\ (Called("skip") \/ Called("prev")) => (CalledShouldPlay = isPlaying)

\* C6: the play issued at the natural end of a track has shouldPlay = true;
\* the play issued by a manual skip forward or previous has shouldPlay equal
\* to isPlaying at the moment of the request.
C6_AutoStart == [][C6_Step]_vars

\* the end of a track has issued a play of another entry with shouldPlay
C6_Witness ==
    /\ JustCalled("ended")
    /\ ~isLooping
    /\ attempts[playRequestCount].shouldPlay
    /\ attempts[playRequestCount].item # activeFileId

\* ------------------------------------------------------------------ C7
C7_Step ==
    /\ \A r \in 1..MaxPlays :
          (/\ r = playRequestCount
           /\ attempts[r].pc \in {"open", "swap", "playStart", "decode"}
           /\ attempts'[r].pc = "failed")
              => /\ error' = "load failed"
                 /\ waveformData' = 0
                 /\ skipTimers' = IF attempts[r].shouldPlay
                                  THEN skipTimers + 1 ELSE skipTimers
    /\ Called("recover") => (skipTimers > 0 /\ skipTimers' = skipTimers - 1)

\* C7: when an attempt fails while it holds the current generation, the
\* error notice is set, the waveform is cleared, and the skip to the next
\* track is scheduled if and only if the attempt was made with shouldPlay;
\* the scheduled skip is the only source of a recovery advance.
C7_FailureRecovery == [][C7_Step]_vars

\* a play request has failed: the notice is up, the waveform is gone, and
\* the scheduled skip has issued its advance
C7_Witness ==
    /\ JustCalled("recover")
    /\ error = "load failed"
    /\ waveformData = 0
    /\ skipTimers = 0
    /\ attempts[playRequestCount - 1].pc = "failed"

\* ------------------------------------------------------------------ C8
C8_Step ==
    /\ autoLoads' <= 1
    /\ (isStarted' /\ ~isLoading' /\ FilteredFiles' # <<>>) => autoLoads' = 1
    /\ (playRequestCount' # playRequestCount /\ lastCall' = "auto") =>
          /\ autoLoads' = 1
          /\ isStarted'
          /\ attempts'[playRequestCount'].item = Head(FilteredFiles')
          /\ ~attempts'[playRequestCount'].shouldPlay

\* C8: the initial auto-load happens exactly once per session (a session
\* starts with a directory pick or an import): at most one auto-load, it has
\* happened whenever the session is started, not loading and the filtered
\* list is non-empty, and it is a playFile call for the first entry of the
\* filtered list with shouldPlay = false; no rescan, batch move, enrichment
\* flush or filter change makes a second one.
C8_AutoLoadOnce == [][C8_Step]_vars

\* after the auto-load: a batch move and its rescan are over, durations
\* have been flushed, and the filtered list is still non-empty
C8_Witness ==
    /\ autoLoads = 1 /\ hasAutoLoadedFirst
    /\ isStarted /\ ~isLoading /\ error = "moved"
    /\ durations # NoDurations
    /\ FilteredFiles # <<>>

\* ------------------------------------------------------------------ C9
\* C9: at most one enrichment pass (worker loop) is active at any time.
C9_OnePass == workers <= 1

\* the effect was triggered while a pass was active: the pass widened the
\* duration bound at a flush, and a rescan has reset it since, with files
\* still pending
C9_Witness ==
    /\ isEnriching /\ workers = 1 /\ isStarted
    /\ lastMaxDuration > DefaultMaxDuration /\ batchSize = 0
    /\ boundsDurMax = DefaultMaxDuration
    /\ scanPc = "readCache"
    /\ metadataQueue # <<>>

\* ------------------------------------------------------------------ C10
\* C10: whenever the session is started and the pending list is non-empty,
\* the pending list eventually becomes empty (or the session is ejected).
C10_QueueDrains ==
    (isStarted /\ metadataQueue # <<>>) ~> (metadataQueue = <<>> \/ ~isStarted)

\* ------------------------------------------------------------------ C11
\* C11: bounds.duration.max never decreases: no step (enrichment flush,
\* rescan, import, filter change) takes it below the value it holds.
C11_BoundsNeverShrink == [][boundsDurMax' >= boundsDurMax]_vars

\* ------------------------------------------------------------------ C12
\* a probe has settled with a duration above every duration the pass has
\* seen and above bounds.duration.max
C12_Discovery ==
    /\ wpc = "probe"
    /\ lastMaxDuration' > lastMaxDuration
    /\ lastMaxDuration' > boundsDurMax

\* C12: the step in which a probe returns a duration greater than
\* bounds.duration.max raises bounds.duration.max to cover it, whether or
\* not that step flushes the batch.
C12_WidenAtDiscovery ==
    [][C12_Discovery => boundsDurMax' >= lastMaxDuration']_vars

\* ------------------------------------------------------------------ C13
\* the keys of a duration record
Keys(d) == {p \in Paths : d[p] # 0}

\* no enrichment pass is active and nothing is pending
Drained == wpc = "idle" /\ ~isEnriching /\ metadataQueue = <<>>

\* C13: starting from an empty duration map, the ids held by the duration
\* map and by the worker's unflushed batch are exactly the ids whose probe
\* succeeded, and the stored value is the probed duration; so once the
\* pending list has drained (the batch is then empty) the keys of the map
\* are exactly the successfully probed ids: a file whose probes all failed
\* is absent and no probed duration is lost.
C13_ExactlyProbed ==
    /\ Keys(durations) \cup Keys(batch) = probedOk
    /\ Drained => (batch = NoDurations /\ Keys(durations) = probedOk)
    /\ \A p \in Keys(durations) : durations[p] = FileDuration(p)

\* drained: the long file was probed with success and is in the map, the
\* other file's probe failed and it is absent
C13_Witness ==
    /\ Drained /\ isStarted /\ scanPc = "idle"
    /\ allFiles = <<1, 2>>
    /\ probedOk = {1}
    /\ durations[1] = 120 /\ durations[2] = 0

\* ------------------------------------------------------------------ C14
\* the step ends an enrichment pass
PassEnds == isEnriching /\ ~isEnriching'

C15_Takes == wpc' = "getFile" /\ (wpc # "getFile" \/ wFile' # wFile)

\* the sequence is in scan order (the order in which a scan or an import
\* seeds the pending list)
C15_InScanOrder(q) == \A i, j \in 1..Len(q) : i < j => q[i] < q[j]

C15_Step ==
    C15_Takes =>
        /\ workers' = 1
        /\ IF wpc = "idle"
           THEN C15_InScanOrder(<<wFile'>> \o metadataQueue')
           ELSE <<wFile'>> \o metadataQueue' = metadataQueue

\* C15: every file an enrichment pass takes for probing is the first of
\* the pending list, whose other entries stay pending in their order, and
\* it is taken by the one worker loop, only when the previous file's probe
\* has settled.
C15_Fifo == [][C15_Step]_vars

\* the pass has taken the second file of a two-file list after the probe
\* of the first settled
C15_Witness ==
    /\ isEnriching /\ wpc = "getFile" /\ workers = 1
    /\ allFiles = <<1, 2>> /\ wFile = 2 /\ metadataQueue = <<>>
    /\ batch[1] = FileDuration(1)


\* A batch has just run: handleBatchMove has gone through its loop.
BatchRan == moves' = moves + 1

\* the entries of the latest batch other than the one whose move threw
OtherEntries == {i \in 1..Len(moveItems) : i # moveFailed}

\* C16: moveMany treats each entry on its own: when the move of one entry
\* fails, every other entry of the batch is still moved (its copy is under
\* the target and its source is gone), the count of moved entries is the
\* number of those entries and that count is what the notice reports
\* (the rescan whose end posts "MOVED n FILE(S)" is under way).
C16_EachEntryOnItsOwn ==
    [][BatchRan =>
         /\ \A i \in OtherEntries' :
               ~InSub(moveItems'[i]) =>
                  /\ SubPath(moveItems'[i]) \in disk'
                  /\ moveItems'[i] \notin disk'
         /\ movedCount' = Cardinality(OtherEntries')
         /\ scanPc' = "scanning" /\ scanCaller' = "move"]_vars

\* C17: when moveMany completes, also for a batch in which an entry failed,
\* a full rescan has been triggered and the selection is empty.
C17_RescanAndClear ==
    [][BatchRan => /\ scanPc' = "scanning" /\ scanCaller' = "move"
                   /\ selectedIds' = <<>>]_vars

\* the files among the rows of the explorer
ShownFiles ==
    {FlattenedList[i].file :
        i \in {j \in 1..Len(FlattenedList) : FlattenedList[j].kind = "file"}}

\* C19: the flat filter and the tree flattener give every file the same
\* verdict: with all directories expanded, the files of the flattened tree
\* are those of the flat filtered list, whatever the ranges (a maximum of 0
\* included) and minRating are.
C19_SameVerdict ==
    (isStarted /\ "sub" \in expandedFolders) =>
        ShownFiles = SeqToSet(FilteredFiles)

\* C20: while a search or a rating filter is active, every file that
\* satisfies the filter is among the rows of the explorer, whether or not
\* its directory is in the expanded set.
C20_MatchesShown ==
    (isStarted /\ SearchActive) => SeqToSet(FilteredFiles) \subseteq ShownFiles

\* the directory of the scanned handle
SubHandle == scanHandle.entries[2]

\* turn i of the loop over a directory fails: its entry is not yielded, or
\* it is an audio file that cannot be read
TurnFails(handle, i) ==
    \/ handle.throws /\ i > handle.yields
    \/ /\ handle.entries[i].kind = "file"
       /\ handle.entries[i].audio /\ ~handle.entries[i].ok

\* the audio files of a directory listed before its first failing turn
ReadBeforeFailure(handle) ==
    {handle.entries[i].name :
        i \in {j \in 1..Len(handle.entries) :
                  /\ handle.entries[j].kind = "file"
                  /\ handle.entries[j].audio
                  /\ \A k \in 1..j : ~TurnFails(handle, k)}}

\* the scan failed inside the directory and nowhere else
FailsInSubOnly ==
    /\ ~scanHandle.throws
    /\ \A i \in 1..3 : ~TurnFails(scanHandle, i)
    /\ \E i \in 1..3 : TurnFails(SubHandle, i)

\* the scan is over and every entry outside the directory is in the tree,
\* the directory too
OutsideKept ==
    /\ scanResult.done
    /\ Len(scanResult.items) = 3
    /\ scanResult.items[1].name = "a" /\ scanResult.items[1].kind = "file"
    /\ scanResult.items[2].name = SubHandle.name
    /\ scanResult.items[2].kind = "directory"
    /\ scanResult.items[3].name = "d" /\ scanResult.items[3].kind = "file"

Sorted == SortedFiles(allFiles)
OtherOrder == IF sortOrder = "asc" THEN "desc" ELSE "asc"
SortedOtherOrder == SortWith(sortKey, OtherOrder, allFiles, durations, ratings)
Reverse(s) == [i \in 1..Len(s) |-> s[Len(s) + 1 - i]]
KeyOf(p) == SortValue(sortKey, p, durations, ratings)
PosIn(s, p) == CHOOSE i \in 1..Len(s) : s[i] = p

\* C21: the sort of the flat list is stable and order-symmetric: sorting
\* the sorted list again with the same key and order gives the same
\* sequence, which holds the same files in the order of their keys; files
\* with equal keys keep their input order; and with all keys distinct the
\* other order gives exactly the reversed sequence.
C21_StableSort ==
    /\ SortedFiles(Sorted) = Sorted
    /\ Len(Sorted) = Len(allFiles) /\ SeqToSet(Sorted) = SeqToSet(allFiles)
    /\ \A i, j \in 1..Len(Sorted) :
          i < j => IF sortOrder = "asc"
                   THEN KeyOf(Sorted[i]) <= KeyOf(Sorted[j])
                   ELSE KeyOf(Sorted[i]) >= KeyOf(Sorted[j])
    /\ \A i, j \in 1..Len(allFiles) :
          (i < j /\ KeyOf(allFiles[i]) = KeyOf(allFiles[j])) =>
              PosIn(Sorted, allFiles[i]) < PosIn(Sorted, allFiles[j])
    /\ (\A i, j \in 1..Len(allFiles) :
           i # j => KeyOf(allFiles[i]) # KeyOf(allFiles[j])) =>
              SortedOtherOrder = Reverse(Sorted)

\* sorted by rating, best first: the one rated file leads and the three
\* unrated files follow in their input order
C21_Witness ==
    /\ isStarted /\ allFiles = <<1, 2, SubPath(2), SubPath(3)>>
    /\ sortKey = "rating" /\ sortOrder = "desc"
    /\ ratings[SubPath(2)] = MaxRating
    /\ Sorted = <<SubPath(2), 1, 2, SubPath(3)>>

\* C22: at every moment at most one playback object URL is live: the URL
\* held by lastUrlRef, the previous one being revoked in the step that
\* creates the next, however the play attempts overlap.
C22_OneLiveUrl ==
    /\ Cardinality(liveUrls) <= 1
    /\ liveUrls = IF lastUrl = 0 THEN {} ELSE {lastUrl}

\* the second attempt has created its URL while the first one, which had
\* created its own, is still waiting to hand it to the audio element
C22_Witness ==
    /\ attempts[1].pc = "swap"
    /\ playRequestCount >= 2 /\ lastUrl = 2 /\ liveUrls = {2}

\* the read of the duration cache of the scan in progress has just failed
ReadFailed == scanPc = "readCache" /\ CacheReadFails

\* C23: a failure of the persistent store is a cache miss and never fatal:
\* the scan during which the read of the duration cache fails still
\* publishes the scanned file list, and seeds the pending list with all
\* the scanned files.
C23_FailureIsCacheMiss ==
    [][ReadFailed => /\ allFiles' = scanFiles
                     /\ metadataQueue' = scanFiles]_vars

\* the ids of the entries of a tree, every entry once
RECURSIVE IdsOf(_)
IdsOf(items) ==
    IF items = <<>> THEN <<>>
    ELSE <<Head(items).id>> \o IdsOf(Head(items).children)
                           \o IdsOf(Tail(items))

TreeIds == IdsOf(ExplorerItems(scanResult.items))

\* C24: the ids of the entries of the tree of one scan, the synthetic root
\* of id "root" included, are unique: no two entries, files or directories
\* at any depth, share an id, whatever the names on disk are.
C24_UniqueIds ==
    scanResult.done =>
        \A i, j \in 1..Len(TreeIds) : TreeIds[i] = TreeIds[j] => i = j

NoSpace(s) == \A i \in 1..Len(s) : s[i] # " "

\* C25: the terms of a query are joined by AND: for every text and all
\* terms q1 and q2 without white space, the query "q1 q2" matches the text
\* exactly when q1 matches it and q2 matches it.
C25_AndSemantics ==
    mResult # <<>> =>
       \A i \in 1..Len(mQuery) :
          LET q1 == SubSeq(mQuery, 1, i - 1)
              q2 == SubSeq(mQuery, i + 1, Len(mQuery))
          IN  mQuery[i] = " " /\ NoSpace(q1) /\ NoSpace(q2) =>
                 mResult[1] = (/\ MatchSmartSearch(mText, q1)
                               /\ MatchSmartSearch(mText, q2))

C25_Witness ==
    /\ mText = <<"K">>
    /\ mQuery = <<"k", " ", "-", "g">>
    /\ mResult = <<TRUE>>

\* x occurs in the text when the case of the letters is put aside
SameLetter(c, d) == ToLower(c) = ToLower(d)
OccursIn(x, text) ==
    \E i \in 0..(Len(text) - Len(x)) :
       \A j \in 1..Len(x) : SameLetter(text[i + j], x[j])

MinusKick == <<"-", "k", "i", "c", "k">>
DrumLoop ==
    <<"d", "r", "u", "m", "_", "l", "o", "o", "p", ".", "w", "a", "v">>
KickDrum ==
    <<"k", "i", "c", "k", "_", "d", "r", "u", "m", ".", "w", "a", "v">>
ExclusionTerm ==
    mResult # <<>> /\ mQuery # <<>> /\ Head(mQuery) = "-" /\ NoSpace(mQuery)

\* C26: an exclusion term "-x" with a non-empty x matches a text exactly
\* when x is, without regard to case, not a substring of the text ("-kick"
\* matches "drum_loop.wav" and does not match "kick_drum.wav"); the term "-"
\* alone matches every text.
C26_Exclusion ==
    /\ MatchSmartSearch(DrumLoop, MinusKick)
    /\ ~MatchSmartSearch(KickDrum, MinusKick)
    /\ ExclusionTerm =>
          mResult[1] = (\/ Tail(mQuery) = <<>>
                        \/ ~OccursIn(Tail(mQuery), mText))

C26_Witness ==
    /\ mText = <<"g", "K">>
    /\ mQuery = <<"-", "k">>
    /\ mResult = <<FALSE>>

\* the largest n with n * b <= a, and the least n with a <= n * b
FloorOf(a, b) == CHOOSE n \in 0..a : n * b <= a /\ a < (n + 1) * b
CeilOf(a, b) == CHOOSE n \in 0..a : (n - 1) * b < a /\ a <= n * b
Clamp(i, length) == IF i < 0 THEN 0 ELSE IF i > length THEN length ELSE i

\* row i (counted from 0) lies at least partly inside the viewport
PartlyVisible(i) ==
    /\ i * ROW_HEIGHT < scrollTop + viewportHeight
    /\ (i + 1) * ROW_HEIGHT > scrollTop

\* the rendered rows are the rows from..to-1 of the list, and every row
\* partly inside the viewport is one of them
WindowIs(from, to) ==
    LET list == FlattenedList
        shown == VisibleItems
    IN  /\ shown = Slice(list, Clamp(from, Len(list)), Clamp(to, Len(list)))
        /\ \A i \in 0..(Len(list) - 1) :
              PartlyVisible(i) =>
                 \E k \in 1..Len(shown) : shown[k] = list[i + 1]

\* C27: the rendered window is [floor(scrollTop / rowHeight) - 10,
\* ceil((scrollTop + viewportHeight) / rowHeight) + 10) clamped to
\* [0, length], so that every row even partly inside the viewport is in
\* the window.
C27_Original ==
    isStarted =>
       WindowIs(FloorOf(scrollTop, ROW_HEIGHT) - Overscan,
                CeilOf(scrollTop + viewportHeight, ROW_HEIGHT) + Overscan)

\* C27 as amended: the window ends at floor((scrollTop + viewportHeight) /
\* rowHeight) + 10, not at the ceiling; it is [floor(scrollTop / rowHeight)
\* - 10, floor((scrollTop + viewportHeight) / rowHeight) + 10) clamped to
\* [0, length], and every row even partly inside the viewport is in it.
C27_Amended ==
    isStarted =>
       WindowIs(FloorOf(scrollTop, ROW_HEIGHT) - Overscan,
                FloorOf(scrollTop + viewportHeight, ROW_HEIGHT) + Overscan)

C27_Witness ==
    /\ isStarted
    /\ scrollTop = 11 * ROW_HEIGHT
    /\ viewportHeight = 3 * HalfRow
    /\ StartIndex = 1 /\ EndIndex = 22
    /\ EndIndex < Len(FlattenedList)
    /\ Len(VisibleItems) = 21

\* C28: the debounced query changes only to a search text that has stayed
\* unchanged for the full 200 ms; each keystroke cancels the evaluation
\* scheduled before it, so at most one is pending and an intermediate text
\* is never applied; once the input is left alone the debounced query
\* eventually equals the search text.
C28_Debounce ==
    /\ [][debouncedSearch' # debouncedSearch =>
             debouncedSearch' = searchText /\ textAge = DebounceDelay]_vars
    /\ [][searchText' # searchText =>
             debounceTimers' = <<[text |-> searchText',
                                  left |-> DebounceDelay]>>]_vars
    /\ [](Len(debounceTimers) <= 1)
    /\ \A q \in TypedTexts :
          <>[](searchText = q) => <>[](debouncedSearch = q)

C28_Witness ==
    /\ debouncedSearch = <<"b">>
    /\ searchText = <<"-", "b">>
    /\ textAge = DebounceStep
    /\ debounceTimers = <<[text |-> <<"-", "b">>,
                           left |-> DebounceDelay - DebounceStep]>>

\* C29: every user notice has a lifetime of 2 to 4 seconds: it is cleared
\* automatically, not earlier than 2 s and not later than 4 s after it
\* was raised, also when several notices are raised in quick succession.
C29_NoticeLifetime ==
    /\ [][error # "none" /\ error' = "none" =>
             noticeAge >= 2000 /\ noticeAge <= 4000]_vars
    /\ [](error # "none" => noticeAge <= 4000)

NavCallers == {"skip", "ended", "prev", "recover"}

\* C30: the generation counter never decreases; each play of a File entry
\* increases it by exactly one, before any asynchronous step of that play;
\* a play of a Directory entry, and an advance or a retreat on an empty
\* filtered list, leave it unchanged.
C30_Generation ==
    /\ [][playRequestCount' >= playRequestCount]_vars
    /\ [][playRequestCount' # playRequestCount =>
             /\ playRequestCount' = playRequestCount + 1
             /\ attempts[playRequestCount'].pc = "none"
             /\ attempts'[playRequestCount'].pc = "open"
             /\ lastItem' \in Paths
             /\ lastCall' \in NavCallers => FilteredFiles # <<>>]_vars

C30_Witness ==
    /\ playRequestCount = 2
    /\ attempts[2].pc = "open"
    /\ lastCall = "select"
    /\ attempts[1].pc = "done"

\* ----------------------------------------------------------------- C31
\* attempt r fails in this step while another attempt holds the generation
StaleFailure(r) ==
    /\ r # playRequestCount
    /\ attempts[r].pc # "failed"
    /\ attempts'[r].pc = "failed"

\* C31: a load or decode failure in an attempt whose generation is no
\* longer current is silent: it raises no error notice, does not clear or
\* replace the waveform, and schedules no auto-skip.
C31_SilentStaleFailure ==
    [][\A r \in 1..MaxPlays :
          StaleFailure(r) =>
              UNCHANGED <<error, noticeVars, waveformData, skipTimers>>]_vars

\* a superseded attempt has failed and no notice was ever raised
C31_Witness ==
    /\ playRequestCount = 2
    /\ attempts[1].pc = "failed"
    /\ attempts[2].pc \notin {"none", "failed"}
    /\ error = "none"
    /\ noticeTimers = <<>>

\* ----------------------------------------------------------------- C32
\* the ids of the durations computed in this pass and not yet flushed
Unflushed == {p \in Paths : batch[p] # 0}

\* every duration of the batch is in the duration map and in the cache
Flushed(b) ==
    \A p \in Paths :
        b[p] # 0 => (durations'[p] = b[p] /\ persisted'[p] = b[p])

\* this step brings the batch to BatchFlushSize entries: the batch with the
\* new duration is written out and the worker goes on with an empty batch
C32_FullBatchStep ==
    (/\ wpc = "probe"
     /\ batchSize = BatchFlushSize - 1
     /\ wFile \in probedOk' \ Unflushed)
        => (/\ Flushed([batch EXCEPT ![wFile] = FileDuration(wFile)])
            /\ batch' = NoDurations
            /\ batchSize' = 0)

\* C32: the enrichment worker never holds more than 20 computed-but-
\* unflushed durations: the batch is flushed to the duration map and the
\* persisted cache as soon as it reaches 20 entries, and when the pending
\* list is drained the batch is empty (everything computed has been flushed).
C32_BatchBounded ==
    /\ [](/\ batchSize = Cardinality(Unflushed)
          /\ batchSize < BatchFlushSize)
    /\ [][C32_FullBatchStep]_vars
    /\ []((metadataQueue = <<>> /\ wpc \in {"yield", "idle"})
             => (/\ batch = NoDurations
                 /\ \A p \in probedOk :
                       durations[p] # 0 /\ persisted[p] = durations[p]))

\* a batch of BatchFlushSize durations has just been flushed and files are
\* still pending
C32_Witness ==
    /\ wpc = "yield"
    /\ metadataQueue # <<>>
    /\ batch = NoDurations
    /\ Cardinality({p \in Paths : durations[p] # 0}) = BatchFlushSize
    /\ flushes = 1

\* ----------------------------------------------------------------- C33
\* the directories of a list of items, at any depth
RECURSIVE DirsOf(_)
DirsOf(nodes) ==
    IF nodes = <<>> THEN {}
    ELSE (IF Head(nodes).kind = "directory"
          THEN {Head(nodes)} \cup DirsOf(Head(nodes).children)
          ELSE {})
         \cup DirsOf(Tail(nodes))

\* the name of the directory matches the query
NameMatches(n) == MatchSmartSearch(DirName(n.dir), debouncedSearch)

\* processNode(node) pushes a row: a file that passes the filters, a
\* directory whose name matches, or a directory that is visited and has a
\* child that pushes a row
RECURSIVE Pushes(_)
Pushes(node) ==
    IF node.kind = "file" THEN NodeMatches(node.file)
    ELSE \/ NameMatches(node)
         \/ /\ node.dir \in expandedFolders \/ SearchActive
            /\ \E i \in 1..Len(node.children) : Pushes(node.children[i])

\* a file below the directory passes the filters, or a directory below it
\* has a matching name
MatchBelow(n) ==
    \/ \E p \in SeqToSet(Collect(n.children)) : NodeMatches(p)
    \/ \E m \in DirsOf(n.children) : NameMatches(m)

Shown(n) == DirRow(n.dir) \in SeqToSet(fResult.rows)

\* C33: a directory row appears in the flattened output only if at least
\* one of its descendants was emitted, or its own name matches the query
\* and it is not the synthetic root; in particular, under a non-empty query
\* a directory with no matching descendant and a non-matching name is never
\* emitted.
C33_DirectoryRows ==
    fResult.done =>
        \A n \in DirsOf(fItems) :
            /\ Shown(n) =>
                  \/ /\ n.dir \in expandedFolders \/ SearchActive
                     /\ \E i \in 1..Len(n.children) :
                           Pushes(n.children[i])
                  \/ NameMatches(n) /\ n.dir # "root"
            /\ (/\ debouncedSearch # <<>>
                /\ ~MatchBelow(n)
                /\ ~NameMatches(n)) => ~Shown(n)

\* under the query "c" the directory "sub" is shown for its file "c", and
\* the directory "sub/deep", which holds only the file "a", is not
C33_Witness ==
    /\ fResult.done
    /\ fItems = NestedTree
    /\ debouncedSearch = <<"c">>
    /\ fResult.rows = <<DirRow("sub"), FileRow(SubPath(3))>>

\* ----------------------------------------------------------------- C34
\* the files that are children of the directory itself
FileChildren(n) ==
    {n.children[i].file :
        i \in {j \in 1..Len(n.children) : n.children[j].kind = "file"}}

\* the files of the rows, in the order of the rows
RowFiles(rows) ==
    LET fileRows == SelectSeq(rows, LAMBDA row : row.kind = "file")
    IN  [i \in 1..Len(fileRows) |-> fileRows[i].file]

\* the members of S in the order in which the list holds them
Among(list, S) == SelectSeq(list, LAMBDA p : p \in S)

\* C34: the file children of one visible, expanded directory are listed by
\* the flattened tree in the same relative order in which the flat filtered
\* list orders them under the same SortSpec, including children whose sort
\* keys are equal (ties keep input order in both views).
C34_SameOrder ==
    fResult.done =>
        \A n \in DirsOf(fItems) :
            (Shown(n) /\ n.dir \in expandedFolders) =>
                Among(RowFiles(fResult.rows), FileChildren(n))
                    = Among(FilteredFiles, FileChildren(n))

\* ----------------------------------------------------------------- C35
\* the directory whose child the item is, if any
ParentOf(item) ==
    {n \in DirsOf(fItems) :
        \E i \in 1..Len(n.children) :
            /\ n.children[i].kind = item.kind
            /\ n.children[i].file = item.file
            /\ n.children[i].dir = item.dir}

\* the items below a directory as rows, at any depth
RECURSIVE RowsBelow(_)
RowsBelow(nodes) ==
    IF nodes = <<>> THEN {}
    ELSE (IF Head(nodes).kind = "file"
          THEN {FileRow(Head(nodes).file)}
          ELSE {DirRow(Head(nodes).dir)} \cup RowsBelow(Head(nodes).children))
         \cup RowsBelow(Tail(nodes))

\* the place of a row in the output (0: not there)
RowIndex(row) ==
    IF \E i \in 1..Len(fResult.rows) : fResult.rows[i] = row
    THEN CHOOSE i \in 1..Len(fResult.rows) : fResult.rows[i] = row
    ELSE 0

\* the places of the rows of the directory's subtree
SubtreePlaces(n) ==
    {i \in 1..Len(fResult.rows) : fResult.rows[i] \in RowsBelow(n.children)}

\* C35: the flattened output preserves the hierarchy: for every SortSpec,
\* each emitted row whose parent directory is among the displayed items
\* appears after its parent's row, and the rows of one directory's subtree
\* form a contiguous block headed by that directory's row (a nested
\* directory's children are never separated from it by the sort of an outer
\* level).
C35_Hierarchy ==
    fResult.done =>
        \A n \in DirsOf(fItems) :
            Shown(n) =>
                LET at == RowIndex(DirRow(n.dir))
                    places == SubtreePlaces(n)
                IN  /\ \A i \in places : i > at
                    /\ places = (at + 1)..(at + Cardinality(places))

\* ----------------------------------------------------------------- C36
\* every play attempt that was made has run to its end without an error
AllCompleted ==
    /\ playRequestCount >= 1
    /\ \A r \in 1..playRequestCount : attempts[r].pc = "done"

\* C36: once all in-flight play attempts have completed, the entry whose
\* bytes are loaded in the audio element, activeId and the committed
\* waveform all belong to the same entry, for every order in which the file
\* opens and decodes of overlapping play attempts resolve.
C36_OneEntry ==
    AllCompleted =>
        /\ audioSrc.item = activeFileId
        /\ waveformData = activeFileId

\* ----------------------------------------------------------------- C37
\* no scan and no enrichment pass is in progress
AtRest == isStarted /\ ~isLoading /\ scanPc = "idle" /\ ~isEnriching

\* C37: whenever no scan and no enrichment pass is in progress,
\* bounds.duration.max is at least the known duration of every file in the
\* library, including durations that came from the persisted cache, so
\* every file with a known duration is representable by the duration range
\* filter.
C37_BoundsCoverDurations ==
    AtRest => \A p \in SeqToSet(allFiles) : durations[p] <= boundsDurMax

\* ----------------------------------------------------------------- C38
\* the step is a batch move (handleBatchMove up to its rescan or its catch)
BatchMoveStep == moves' = moves + 1

\* the bytes of the entry are on disk after the step: under the target
\* "sub" or at the place they were moved from
Kept(p) == SubPath(p) \in disk' \/ p \in disk'

\* C38: moveMany never destroys a file's contents: after a batch move each
\* selected file's bytes exist under the target directory or at the
\* original location, for every choice of target directory including the
\* file's own parent directory, and the original is removed only after the
\* copy under the target has been fully written and closed.
C38_NothingLost ==
    [][BatchMoveStep =>
          \A i \in 1..Len(moveItems') :
              moveItems'[i] \in disk => Kept(moveItems'[i])]_vars

\* ----------------------------------------------------------------- C39
\* C39: after any sequence of add-shortcut and remove-shortcut operations
\* the keys of the move-shortcut list are pairwise distinct, so a key press
\* selects at most one target folder.
C39_DistinctKeys ==
    \A i, j \in 1..Len(moveShortcuts) :
        i # j => moveShortcuts[i].key # moveShortcuts[j].key

====
